---------------------------- MODULE Spec2Model ----------------------------
(***************************************************************************)
(* A model of mcp-workspaces: the path check (pkg/workspace/manager.go),   *)
(* the file operations with their optimistic-concurrency preconditions     *)
(* (pkg/mcpsdk/tools.go), the in-memory event hub (pkg/events/hub.go),     *)
(* the filesystem watcher (StartFSWatcher) and Manager.Create.             *)
(*                                                                         *)
(* The specifications share the variables:                                 *)
(*   SpecPath    SafePath and the protected-path test as pure functions,   *)
(*               applied to inputs drawn from bounded sets;                *)
(*   Spec        the server in HTTP mode: concurrent API requests on one   *)
(*               workspace, each a sequence of steps, publishing to the    *)
(*               hub, and one SSE subscriber;                              *)
(*   SpecOps     one client calling every file operation in turn;          *)
(*   SpecFault   the mutating operations with commits that may fail;       *)
(*   SpecPre     one client writing, editing and deleting one file with    *)
(*               every combination of the two preconditions;               *)
(*   SpecSync    API requests on a workspace that the watcher observes;    *)
(*   SpecHub     the hub as a library: concurrent Publish, Subscribe with  *)
(*               its replay task, receive, unsubscribe and Close;          *)
(*   SpecSubs    two subscriptions, unsubscribed and closed;               *)
(*   SpecFanout  two publishers and a subscriber that never reads;         *)
(*   SpecSlow    the same with buffers of more than one event;             *)
(*   SpecWatch, SpecWatchPrompt  the watcher's consumer and sweeper;       *)
(*   SpecNames   the watcher on a burst of changes to plain and protected  *)
(*               names, the repository's directory included;               *)
(*   SpecCreate  Manager.Create called with names that collide.            *)
(***************************************************************************)
EXTENDS Integers, Sequences, FiniteSets, TLC

VARIABLES
    pIn,        \* SpecPath: the call's arguments [ws, rel]
    pOut,       \* SpecPath: the result of the call, or NoResult
    disk,       \* the files below the manager's root: path -> [kind, data]
    head,       \* the workspace's HEAD: number of the last commit (0 = no commit)
    commits,    \* the workspace's commit history: the tree of each commit
    req,        \* the API requests in flight: slot -> record with its position
    nOps,       \* API requests started so far
    hws,        \* Hub.ws: workspace id -> workspaceState (seq, ring, ringStart, subs, nextSubID)
    closed,     \* Hub.closed
    chans,      \* the subscription channels: subscription -> [q, cap, closed]
    pubs,       \* the Publish calls in flight: task -> record with its position
    subT,       \* the subscriptions: who holds them, their replay task
    published,  \* history: workspace id -> all events published to it, in ID order
    received,   \* history: subscription -> the event IDs its reader has received
    nPub,       \* Publish calls started so far
    panicked,   \* a send on a closed channel has crashed the process
    clock,      \* the watcher's time.Now(), in units of 50 ms
    wEvents,    \* fsnotify's w.Events: the raw notifications not yet consumed
    debounced,  \* StartFSWatcher's debounced map: key -> time of its last notification
    sweep,      \* the sweeper goroutine: its position, its now and its toSend
    nRaw,       \* raw notifications delivered so far
    stamps,     \* history: key -> the times at which the consumer stamped it
    takes,      \* history: key -> for each time the sweeper took it, the stamps it had
    sec,        \* Manager.Create's time.Now(), in seconds
    wsDirs,     \* the directories below the manager's root that Create sees
    wsRepos,    \* those of them that hold an initialized repository
    calls       \* history: the Create calls made so far, [name, id, err]

vars == <<pIn, pOut, disk, head, commits, req, nOps, hws, closed, chans, pubs,
          subT, published, received, nPub, panicked,
          clock, wEvents, nRaw, debounced, sweep, stamps, takes, sec, wsDirs, wsRepos, calls>>

pathVars == <<pIn, pOut>>
fsVars   == <<disk, head, commits, req, nOps>>
hubVars  == <<hws, closed, chans, pubs, subT, published, received, nPub, panicked>>
watchVars == <<clock, wEvents, nRaw, debounced, sweep, stamps, takes>>
mgrVars  == <<sec, wsDirs, wsRepos, calls>>

(***************************************************************************)
(* Bounds.                                                                 *)
(***************************************************************************)
MaxSegs == 3        \* segments of a relative path given to SafePath

Max(a, b) == IF a >= b THEN a ELSE b
Min(a, b) == IF a <= b THEN a ELSE b

(***************************************************************************)
(* Path strings.  A path string is held as strings.Split(s, "/") holds it: *)
(* the non-empty sequence of its segments ("" is <<"">>, "/r/w" is         *)
(* <<"", "r", "w">>).  A segment is a sequence of characters, so that      *)
(* strings.HasPrefix can be computed character by character.               *)
(***************************************************************************)
EmptySeg == <<>>
Dot      == <<".">>
DotDot   == <<".", ".">>
SegA     == <<"a">>
SegB     == <<"b">>
SegD     == <<"d">>
SegW     == <<"w">>
SegWX    == <<"w", "x">>
SegGit   == <<".", "g", "i", "t">>
SegKeep  == <<".", "g", "i", "t", "k", "e", "e", "p">>

EmptyStr == <<EmptySeg>>

\* The characters of a path string, "/" between the segments.
RECURSIVE Str(_)
Str(p) == IF Len(p) = 0 THEN <<>>
          ELSE IF Len(p) = 1 THEN p[1]
          ELSE p[1] \o <<"/">> \o Str(Tail(p))

HasPrefix(s, prefix) ==
    /\ Len(prefix) <= Len(s)
    /\ SubSeq(s, 1, Len(prefix)) = prefix

IsAbs(p) == Len(p) >= 2 /\ p[1] = EmptySeg

\* filepath.Clean's pass over the segments: "" and "." are dropped, ".."
\* removes the element before it, is dropped at the root of a rooted path
\* and is kept at the front of a relative one.
RECURSIVE CleanSegs(_, _, _)
CleanSegs(p, out, rooted) ==
    IF Len(p) = 0 THEN out
    ELSE LET s == Head(p) IN
         IF s = EmptySeg \/ s = Dot THEN CleanSegs(Tail(p), out, rooted)
         ELSE IF s = DotDot THEN
              IF Len(out) > 0 /\ out[Len(out)] # DotDot
                  THEN CleanSegs(Tail(p), SubSeq(out, 1, Len(out) - 1), rooted)
              ELSE IF rooted THEN CleanSegs(Tail(p), out, rooted)
              ELSE CleanSegs(Tail(p), Append(out, DotDot), rooted)
         ELSE CleanSegs(Tail(p), Append(out, s), rooted)

Clean(p) ==
    LET out == CleanSegs(p, <<>>, IsAbs(p)) IN
    IF IsAbs(p) THEN (IF Len(out) = 0 THEN <<EmptySeg, EmptySeg>> ELSE <<EmptySeg>> \o out)
    ELSE IF Len(out) = 0 THEN <<Dot>> ELSE out

\* filepath.Join of two elements: empty elements are ignored, the rest are
\* joined with "/" and cleaned.
Join(a, b) ==
    IF a = EmptyStr /\ b = EmptyStr THEN EmptyStr
    ELSE IF a = EmptyStr THEN Clean(b)
    ELSE IF b = EmptyStr THEN Clean(a)
    ELSE Clean(a \o b)

\* The test that knows .git only.
isProtectedNameGit(name) == name = SegGit

isProtectedName(name) == name = SegGit \/ name = SegKeep

\* The test applied to the last segment only.
isProtectedPathLast(rel) ==
    LET cleaned == Clean(rel) IN isProtectedName(cleaned[Len(cleaned)])

isProtectedPath(rel) ==
    LET cleaned == Clean(rel) IN
    \E i \in 1..Len(cleaned) : cleaned[i] # EmptySeg /\ isProtectedName(cleaned[i])

(***************************************************************************)
(* The manager's root.  The disk maps the absolute paths the model follows *)
(* to nothing, a directory or a file with its bytes.                       *)
(***************************************************************************)
rootPath == <<EmptySeg, <<"r">>>>

workspaceW == rootPath \o <<SegW>>

workspaceWX == rootPath \o <<SegWX>>

\* The absolute paths whose state the model follows.
Universe ==
    {rootPath, workspaceWX, workspaceW,
     workspaceW \o <<SegGit>>, workspaceW \o <<SegKeep>>,
     workspaceW \o <<SegA>>, workspaceW \o <<SegB>>,
     workspaceW \o <<SegD>>, workspaceW \o <<SegD, SegKeep>>}

Absent    == [kind |-> "none", data |-> <<>>]
Directory == [kind |-> "dir", data |-> <<>>]
File(data) == [kind |-> "file", data |-> data]

\* The directory that holds the manager's root: "/".
rootParent == <<EmptySeg, EmptySeg>>

\* os.Stat(path) succeeds.  The directory above the root is there whenever
\* the root is.
StatExists(abs) ==
    \/ abs \in DOMAIN disk /\ disk[abs].kind # "none"
    \/ abs = rootParent /\ disk[rootPath].kind # "none"

EscapesRoot(absPath, workspaceRoot) == ~HasPrefix(Str(absPath), Str(workspaceRoot))

SafePath(workspaceID, relativePath) ==
    LET workspaceRoot == Join(rootPath, workspaceID)
        cleanedRelativePath == Clean(relativePath)
        absPath == Join(workspaceRoot, cleanedRelativePath)
    IN  IF ~StatExists(workspaceRoot)
            THEN [ok |-> FALSE, err |-> "workspace not found", path |-> EmptyStr]
        ELSE IF IsAbs(cleanedRelativePath)
            THEN [ok |-> FALSE, err |-> "path must be relative", path |-> EmptyStr]
        ELSE IF EscapesRoot(absPath, workspaceRoot)
            THEN [ok |-> FALSE, err |-> "path escapes workspace boundaries", path |-> EmptyStr]
        ELSE [ok |-> TRUE, err |-> "", path |-> absPath]

\* The head of every file operation: the protected-path test, then SafePath,
\* whose every error is reported as OUT_OF_BOUNDS.
ResolveForOp(workspaceID, relativePath) ==
    IF isProtectedPath(relativePath)
        THEN [kind |-> "NOT_FOUND", path |-> EmptyStr]
    ELSE LET r == SafePath(workspaceID, relativePath) IN
         IF ~r.ok THEN [kind |-> "OUT_OF_BOUNDS", path |-> EmptyStr]
         ELSE [kind |-> "OK", path |-> r.path]

SegNames == {EmptySeg, Dot, DotDot, SegA, SegW, SegWX, SegGit}

RECURSIVE SeqsUpTo(_, _)
SeqsUpTo(S, n) ==
    IF n = 0 THEN {<<>>}
    ELSE LET shorter == SeqsUpTo(S, n - 1) IN
         shorter \cup {Append(s, x) : s \in {t \in shorter : Len(t) = n - 1}, x \in S}

RelInputs == SeqsUpTo(SegNames, MaxSegs) \ {<<>>}

WsIDInputs == {<<SegW>>, <<SegWX>>, <<SegA>>, <<DotDot>>, EmptyStr, <<SegW, DotDot>>}

NoResult == [kind |-> "none", ok |-> FALSE, err |-> "", path |-> EmptyStr]

(***************************************************************************)
(* The event hub (pkg/events/hub.go).                                      *)
(***************************************************************************)
RingCap == 2        \* ring capacity given to NewHub (200 in RunHTTP), scaled down
MaxBuf  == 2        \* largest subscriber buffer (128 in SSEHandler), scaled down
MaxPub  == 3        \* Publish calls started in SpecHub
MaxUnsub == 2       \* calls of one subscription's unsubscribe function

HubWS    == {"w", "v"}
PubTasks == {"p1", "p2"}
ReqSlots == {"r1", "r2"}
SubTasks == {"s1", "s2"}
WatchTask == "fw"
Callers  == PubTasks \cup ReqSlots \cup {WatchTask}

\* PrevPath *string: nil.
NoPrevPath == <<>>

ZeroEvent == [id |-> 0, ts |-> "", ws |-> "", type |-> "", path |-> EmptyStr,
              prevPath |-> NoPrevPath, isDir |-> FALSE, commit |-> 0, actor |-> ""]

NoWS == [exists |-> FALSE, seq |-> 0, ring |-> <<>>, ringStart |-> 0,
         subs |-> {}, nextSubID |-> 1]

NewWS == [NoWS EXCEPT !.exists = TRUE]

IdlePub == [pc |-> "idle", ws |-> "", evt |-> ZeroEvent, todo |-> {}, cur |-> "", phase |-> ""]

IdleSub == [pc |-> "idle", ws |-> "", since |-> 0, id |-> 0, replay |-> <<>>,
            snapshot |-> <<>>, atSeq |-> 0, noop |-> FALSE, unsubs |-> 0]

NoChan == [made |-> FALSE, q |-> <<>>, cap |-> 0, closed |-> FALSE]

\* The ring read from the oldest event to the newest.
Logical(st) ==
    [i \in 1..Len(st.ring) |-> st.ring[((st.ringStart + i - 1) % RingCap) + 1]]

\* The iteration that forgets where the oldest event is.
LogicalFromZero(st) == st.ring

IDs(evs) == [i \in 1..Len(evs) |-> evs[i].id]

\* The lookup that creates the state of every workspace.
getOrCreateEvery(id) ==
    IF closed THEN hws
    ELSE [w \in HubWS |-> IF hws[w].exists THEN hws[w] ELSE NewWS]

\* getOrCreateWS: the state of the workspace, created on first reference;
\* nothing is created once the hub is closed.
getOrCreateWS(id) ==
    IF closed \/ hws[id].exists THEN hws ELSE [hws EXCEPT ![id] = NewWS]

\* The ring after the append that keeps the oldest event's index.
ringAppendNoAdvance(st, evt) ==
    IF Len(st.ring) < RingCap
        THEN [st EXCEPT !.ring = Append(@, evt)]
        ELSE [st EXCEPT !.ring[st.ringStart + 1] = evt]

\* The ring after an append that never overwrites.
ringAppendUnbounded(st, evt) == [st EXCEPT !.ring = Append(@, evt)]

\* Publish's append to the circular buffer.
ringAppend(st, evt) ==
    IF Len(st.ring) < RingCap
        THEN [st EXCEPT !.ring = Append(@, evt)]
        ELSE [st EXCEPT !.ring[st.ringStart + 1] = evt,
                        !.ringStart = (st.ringStart + 1) % RingCap]

UninitSlot(e) == e.ws = "" /\ e.ts = "" /\ e.type = ""

collectSinceFromZero(st, sinceID) ==
    SelectSeq(LogicalFromZero(st), LAMBDA e : ~UninitSlot(e) /\ e.id > sinceID)

collectSinceLocked(st, sinceID) ==
    IF Len(st.ring) = 0 THEN <<>>
    ELSE SelectSeq(Logical(st), LAMBDA e : ~UninitSlot(e) /\ e.id > sinceID)

(***************************************************************************)
(* Publish, in its steps: getOrCreateWS under the lock; the ID, the ring   *)
(* and the snapshot of the subscribers under the lock; then, unlocked, one *)
(* non-blocking send per subscriber, with one drain and one retry when the *)
(* buffer is full.  A send on a closed channel panics.                     *)
(***************************************************************************)
PubBegin(p, workspaceID, evt) ==
    /\ ~panicked
    /\ pubs[p].pc = "idle"
    /\ hws' = getOrCreateWS(workspaceID)
    /\ pubs' = [pubs EXCEPT ![p] =
                  IF closed THEN IdlePub
                  ELSE [IdlePub EXCEPT !.pc = "lock", !.ws = workspaceID,
                            !.evt = [evt EXCEPT !.ts = "now", !.ws = workspaceID]]]
    /\ UNCHANGED <<closed, chans, subT, published, received, panicked>>

\* The task has no subscriber left to serve: Publish returns.
PubAfter(rec, todo) ==
    IF todo = {} THEN IdlePub
    ELSE [rec EXCEPT !.todo = todo, !.cur = "", !.phase = "send1"]

PubLock(p) ==
    /\ ~panicked
    /\ pubs[p].pc = "lock"
    /\ LET w   == pubs[p].ws
           st  == hws[w]
           evt == [pubs[p].evt EXCEPT !.id = st.seq + 1]
           st2 == ringAppend([st EXCEPT !.seq = st.seq + 1], evt)
           snap == {s.ch : s \in st.subs}
       IN  /\ hws' = [hws EXCEPT ![w] = st2]
           /\ published' = [published EXCEPT ![w] = Append(@, evt)]
           /\ pubs' = [pubs EXCEPT ![p] =
                         PubAfter([pubs[p] EXCEPT !.pc = "fanout", !.evt = evt], snap)]
    /\ UNCHANGED <<closed, chans, subT, received, panicked>>

\* s.ch <- evt as a plain send: the task waits while the buffer is full.
PubSend1Blocking(p, s) ==
    /\ ~panicked
    /\ pubs[p].pc = "fanout" /\ pubs[p].phase = "send1"
    /\ s \in pubs[p].todo
    /\ ~chans[s].closed
    /\ Len(chans[s].q) < chans[s].cap
    /\ chans' = [chans EXCEPT ![s].q = Append(@, pubs[p].evt)]
    /\ pubs' = [pubs EXCEPT ![p] = PubAfter(pubs[p], pubs[p].todo \ {s})]
    /\ UNCHANGED <<hws, closed, subT, published, received, panicked>>

\* case s.ch <- evt / default
PubSend1(p, s) ==
    /\ ~panicked
    /\ pubs[p].pc = "fanout" /\ pubs[p].phase = "send1"
    /\ s \in pubs[p].todo
    /\ IF chans[s].closed
          THEN /\ panicked' = TRUE
               /\ UNCHANGED <<chans, pubs>>
       ELSE IF Len(chans[s].q) < chans[s].cap
          THEN /\ chans' = [chans EXCEPT ![s].q = Append(@, pubs[p].evt)]
               /\ pubs' = [pubs EXCEPT ![p] = PubAfter(pubs[p], pubs[p].todo \ {s})]
               /\ UNCHANGED panicked
       ELSE    /\ pubs' = [pubs EXCEPT ![p].cur = s, ![p].phase = "drain"]
               /\ UNCHANGED <<chans, panicked>>
    /\ UNCHANGED <<hws, closed, subT, published, received>>

\* The drain that takes the newest queued event.
PubDrainNewest(p) ==
    /\ ~panicked
    /\ pubs[p].pc = "fanout" /\ pubs[p].phase = "drain"
    /\ LET s == pubs[p].cur IN
       chans' = [chans EXCEPT ![s].q = IF Len(@) > 0 THEN SubSeq(@, 1, Len(@) - 1) ELSE @]
    /\ pubs' = [pubs EXCEPT ![p].phase = "send2"]
    /\ UNCHANGED <<hws, closed, subT, published, received, panicked>>

\* case <-s.ch / default: the oldest queued event is dropped.
PubDrain(p) ==
    /\ ~panicked
    /\ pubs[p].pc = "fanout" /\ pubs[p].phase = "drain"
    /\ LET s == pubs[p].cur IN
       chans' = [chans EXCEPT ![s].q = IF Len(@) > 0 THEN Tail(@) ELSE @]
    /\ pubs' = [pubs EXCEPT ![p].phase = "send2"]
    /\ UNCHANGED <<hws, closed, subT, published, received, panicked>>

\* case s.ch <- evt / default: still blocked, skip
PubSend2(p) ==
    /\ ~panicked
    /\ pubs[p].pc = "fanout" /\ pubs[p].phase = "send2"
    /\ LET s == pubs[p].cur IN
       IF chans[s].closed
          THEN /\ panicked' = TRUE
               /\ UNCHANGED <<chans, pubs>>
       ELSE /\ chans' = [chans EXCEPT ![s].q =
                           IF Len(@) < chans[s].cap THEN Append(@, pubs[p].evt) ELSE @]
            /\ pubs' = [pubs EXCEPT ![p] = PubAfter(pubs[p], pubs[p].todo \ {s})]
            /\ UNCHANGED panicked
    /\ UNCHANGED <<hws, closed, subT, published, received>>

(***************************************************************************)
(* Subscribe, in its steps: getOrCreateWS and make(chan) ; the             *)
(* registration and the replay slice under the lock; the replay task's     *)
(* non-blocking sends; the reader's receives; the unsubscribe function.    *)
(***************************************************************************)
SubBegin(s, workspaceID, sinceID, buffer) ==
    /\ ~panicked
    /\ subT[s].pc = "idle"
    /\ hws' = getOrCreateWS(workspaceID)
    /\ chans' = [chans EXCEPT ![s] = [made |-> TRUE, q |-> <<>>, cap |-> buffer, closed |-> FALSE]]
    /\ subT' = [subT EXCEPT ![s] = [IdleSub EXCEPT !.pc = "lock", !.ws = workspaceID,
                                                    !.since = sinceID]]
    /\ UNCHANGED <<closed, pubs, published, received, panicked>>

\* The registration and the replay slice taken under two acquisitions of
\* the lock instead of one.
SubLockTwice(s) ==
    /\ ~panicked
    /\ subT[s].pc = "lock"
    /\ ~closed
    /\ LET w  == subT[s].ws
           st == hws[w]
       IN  IF subT[s].id = 0
              THEN /\ hws' = [hws EXCEPT ![w].nextSubID = st.nextSubID + 1,
                                        ![w].subs = st.subs \cup {[id |-> st.nextSubID, ch |-> s]}]
                   /\ subT' = [subT EXCEPT ![s].id = st.nextSubID, ![s].atSeq = st.seq]
              ELSE /\ subT' = [subT EXCEPT ![s].pc = "subscribed",
                                          ![s].replay = collectSinceLocked(st, subT[s].since),
                                          ![s].snapshot = collectSinceLocked(st, subT[s].since)]
                   /\ UNCHANGED hws
    /\ UNCHANGED <<closed, chans, pubs, published, received, panicked>>

SubLock(s) ==
    /\ ~panicked
    /\ subT[s].pc = "lock"
    /\ IF closed
          THEN /\ chans' = [chans EXCEPT ![s].closed = TRUE]
               /\ subT' = [subT EXCEPT ![s].pc = "subscribed", ![s].noop = TRUE]
               /\ UNCHANGED hws
       ELSE LET w  == subT[s].ws
                st == hws[w]
                replay == collectSinceLocked(st, subT[s].since)
            IN  /\ hws' = [hws EXCEPT ![w].nextSubID = st.nextSubID + 1,
                                      ![w].subs = st.subs \cup {[id |-> st.nextSubID, ch |-> s]}]
                /\ subT' = [subT EXCEPT ![s].pc = "subscribed", ![s].id = st.nextSubID,
                                        ![s].replay = replay, ![s].snapshot = replay,
                                        ![s].atSeq = st.seq]
                /\ UNCHANGED chans
    /\ UNCHANGED <<closed, pubs, published, received, panicked>>

\* The replay task: case ch <- e / default (dropped).
ReplaySend(s) ==
    /\ ~panicked
    /\ subT[s].pc = "subscribed"
    /\ Len(subT[s].replay) > 0
    /\ IF chans[s].closed
          THEN /\ panicked' = TRUE
               /\ UNCHANGED <<chans, subT>>
       ELSE /\ chans' = [chans EXCEPT ![s].q =
                           IF Len(@) < chans[s].cap THEN Append(@, Head(subT[s].replay)) ELSE @]
            /\ subT' = [subT EXCEPT ![s].replay = Tail(@)]
            /\ UNCHANGED panicked
    /\ UNCHANGED <<hws, closed, pubs, published, received>>

\* The reader takes the next event from its channel.
Recv(s) ==
    /\ ~panicked
    /\ chans[s].made
    /\ Len(chans[s].q) > 0
    /\ received' = [received EXCEPT ![s] = Append(@, Head(chans[s].q).id)]
    /\ chans' = [chans EXCEPT ![s].q = Tail(@)]
    /\ UNCHANGED <<hws, closed, pubs, subT, published, panicked>>

\* delete(st.subs, id) that removes nothing.
deleteSubNothing(subs, id) == subs

\* delete(st.subs, id)
deleteSub(subs, id) == {x \in subs : x.id # id}

\* The unsubscribe function returned by Subscribe (func() {} when the hub
\* was closed).  close() of a closed channel panics.
Unsubscribe(s) ==
    /\ ~panicked
    /\ subT[s].pc = "subscribed"
    /\ subT[s].unsubs < MaxUnsub
    /\ subT' = [subT EXCEPT ![s].unsubs = @ + 1]
    /\ LET w  == subT[s].ws
           me == {x \in hws[w].subs : x.id = subT[s].id}
       IN  IF ~subT[s].noop /\ hws[w].exists /\ me # {}
              THEN /\ hws' = [hws EXCEPT ![w].subs = deleteSub(@, subT[s].id)]
                   /\ IF chans[s].closed
                         THEN panicked' = TRUE /\ UNCHANGED chans
                         ELSE chans' = [chans EXCEPT ![s].closed = TRUE] /\ UNCHANGED panicked
              ELSE UNCHANGED <<hws, chans, panicked>>
    /\ UNCHANGED <<closed, pubs, published, received>>

\* The subscriptions Close finds registered.
registeredSubs == {x.ch : x \in UNION {hws[w].subs : w \in HubWS}}

\* ws.subs = map[int]subscriber{} that keeps the subscribers.
clearSubsKeep(st) == st

\* ws.subs = map[int]subscriber{}
clearSubs(st) == [st EXCEPT !.subs = {}]

Close ==
    /\ ~panicked
    /\ IF closed THEN UNCHANGED <<closed, hws, chans, panicked>>
       ELSE /\ closed' = TRUE
            /\ IF \E s \in registeredSubs : chans[s].closed
                  THEN panicked' = TRUE /\ UNCHANGED chans
                  ELSE /\ chans' = [s \in SubTasks |->
                                      IF s \in registeredSubs
                                         THEN [chans[s] EXCEPT !.closed = TRUE] ELSE chans[s]]
                       /\ UNCHANGED panicked
            /\ hws' = [w \in HubWS |-> clearSubs(hws[w])]
    /\ UNCHANGED <<pubs, subT, published, received>>

HubInit ==
    /\ hws = [w \in HubWS |-> NoWS]
    /\ closed = FALSE
    /\ chans = [s \in SubTasks |-> NoChan]
    /\ pubs = [p \in Callers |-> IdlePub]
    /\ subT = [s \in SubTasks |-> IdleSub]
    /\ published = [w \in HubWS |-> <<>>]
    /\ received = [s \in SubTasks |-> <<>>]
    /\ nPub = 0
    /\ panicked = FALSE

(***************************************************************************)
(* The file operations (pkg/mcpsdk/tools.go) and the commits               *)
(* (Manager.Commit, Manager.HeadCommit).  A request is served by its own   *)
(* task and takes no lock: each access to the disk or to the repository is *)
(* a step of its own.                                                      *)
(***************************************************************************)
MaxOps == 2         \* API requests started in Spec
SSEBuf == 1         \* buffer of the /events subscriber (128 in SSEHandler), scaled down

\* The etag of a file: the SHA-256 of its bytes, in hex.  "" is <<>>.
Etag(data) == <<"sha256">> \o data

NoEtag == <<>>

ContentX == <<"x">>

ContentY == <<"y">>

ContentZ == <<"z">>

\* strings.ReplaceAll for a non-empty old text.
RECURSIVE ReplaceAll(_, _, _)
ReplaceAll(str, old, new) ==
    IF Len(str) < Len(old) THEN str
    ELSE IF SubSeq(str, 1, Len(old)) = old
        THEN new \o ReplaceAll(SubSeq(str, Len(old) + 1, Len(str)), old, new)
    ELSE <<Head(str)>> \o ReplaceAll(Tail(str), old, new)

\* filepath.Dir of an absolute path below the root.
Parent(abs) == SubSeq(abs, 1, Len(abs) - 1)

\* x is abs or lies below it.
IsUnder(x, abs) == Len(x) >= Len(abs) /\ SubSeq(x, 1, Len(abs)) = abs

\* os.MkdirAll: fails when the path or one of its ancestors is a file.
MkdirAllFails(dk, abs) ==
    \E x \in Universe : IsUnder(abs, x) /\ dk[x].kind = "file"

MkdirAll(dk, abs) ==
    [x \in Universe |-> IF IsUnder(abs, x) /\ dk[x].kind = "none" THEN Directory ELSE dk[x]]

\* os.WriteFile: fails on a directory and without a parent directory.
WriteFileFails(dk, abs) ==
    dk[abs].kind = "dir" \/ dk[Parent(abs)].kind # "dir"

WriteFile(dk, abs, data) == [dk EXCEPT ![abs] = File(data)]

\* os.RemoveAll: the path and everything below it; no error when absent.
RemoveAll(dk, abs) ==
    [x \in Universe |-> IF IsUnder(x, abs) THEN Absent ELSE dk[x]]

\* os.Rename: fails when the source is absent, when the destination has no
\* parent directory or lies below the source; the subtree moves.
RenameFails(dk, src, dst) ==
    dk[src].kind = "none" \/ dk[Parent(dst)].kind # "dir" \/ IsUnder(dst, src)

Rename(dk, src, dst) ==
    [x \in Universe |->
        IF IsUnder(x, dst)
            THEN LET from == src \o SubSeq(x, Len(dst) + 1, Len(x)) IN
                 IF from \in Universe THEN dk[from] ELSE Absent
        ELSE IF IsUnder(x, src) THEN Absent
        ELSE dk[x]]

\* What the API shows of the workspace: the entries with no protected name.
Visible(dk) ==
    [x \in {y \in Universe : IsUnder(y, workspaceW) /\ y # workspaceW
                              /\ \A i \in 1..Len(y) : ~isProtectedName(y[i])} |-> dk[x]]

\* What worktree.AddGlob(".") stages: the files of the worktree outside .git.
Tree(dk) ==
    [x \in {y \in Universe : IsUnder(y, workspaceW)
                              /\ ~IsUnder(y, workspaceW \o <<SegGit>>)} |->
        IF dk[x].kind = "file" THEN dk[x] ELSE Absent]

NoEdit == [old |-> <<>>, new |-> <<>>]

NoResp == [err |-> "pending", commit |-> 0, bytes |-> 0, noop |-> FALSE, dryRun |-> FALSE]

IdleReq ==
    [pc |-> "idle", op |-> "", path |-> EmptyStr, dst |-> EmptyStr, content |-> <<>>,
     edit |-> NoEdit, ifEtag |-> NoEtag, ifHead |-> 0, dryRun |-> FALSE,
     abs |-> EmptyStr, overwritten |-> FALSE, currEtag |-> NoEtag, orig |-> <<>>,
     isDir |-> FALSE, created |-> FALSE, changed |-> FALSE, commit |-> 0,
     opNo |-> 0, before |-> {}, quiet |-> FALSE, wrote |-> FALSE, listing |-> {},
     resp |-> NoResp]

\* The call returns the error `kind`.
Failed(rec, kind) == [rec EXCEPT !.pc = "done", !.resp = [NoResp EXCEPT !.err = kind]]

\* The call returns a response with a commit hash (0 is "") and a byte count.
Succeeded(rec, commit, bytes) ==
    [rec EXCEPT !.pc = "done",
                !.resp = [NoResp EXCEPT !.err = "", !.commit = commit, !.bytes = bytes]]

\* The call served by task r has returned: with an error or a no-op
\* response, or after Publish.
Returned(r) ==
    \/ req[r].pc = "done"
    \/ req[r].pc = "publishing" /\ pubs[r].pc = "idle"

\* The request as it arrives: its number, the requests whose call had
\* returned by then, and whether no other call is being served.
Arrived(op, path) ==
    [IdleReq EXCEPT !.op = op, !.path = path, !.opNo = nOps + 1,
                    !.before = {req[o].opNo : o \in {x \in ReqSlots : Returned(x)}},
                    !.quiet = \A o \in ReqSlots : req[o].pc = "idle" \/ Returned(o)]

\* The task r can take a call: it serves none.  The second task takes one
\* only once the first has taken one.
Free(r) ==
    /\ req[r].pc = "idle" \/ Returned(r)
    /\ r = "r2" => req["r1"].pc # "idle"

\* The etag test that does not ask whether the file is there.
etagConflictAbsent(ifMatchFileEtag, overwritten, currEtag) ==
    ifMatchFileEtag # NoEtag /\ currEtag # ifMatchFileEtag

\* "CONFLICT: file etag mismatch", never raised.
etagConflictNever(ifMatchFileEtag, overwritten, currEtag) == FALSE

\* "CONFLICT: file etag mismatch" of FSWriteFile; FSEditFile has read the
\* file, so overwritten is true there.
etagConflict(ifMatchFileEtag, overwritten, currEtag) ==
    ifMatchFileEtag # NoEtag /\ overwritten /\ currEtag # ifMatchFileEtag

\* "CONFLICT: workspace head mismatch", never raised.
headConflictNever(ifMatchWorkspaceHead, h) == FALSE

\* "CONFLICT: workspace head mismatch", raised only when HEAD is behind.
headConflictBehind(ifMatchWorkspaceHead, h) ==
    ifMatchWorkspaceHead # 0 /\ h < ifMatchWorkspaceHead

\* "CONFLICT: workspace head mismatch"; 0 is no precondition.
headConflict(ifMatchWorkspaceHead, h) ==
    ifMatchWorkspaceHead # 0 /\ h # ifMatchWorkspaceHead

\* FSWriteFile's no-op test, never true.
writeNoOpNever(overwritten, currEtag, content) == FALSE

\* FSWriteFile's no-op test: the new bytes hash to the current etag.
writeNoOp(overwritten, currEtag, content) ==
    overwritten /\ currEtag # NoEtag /\ Etag(content) = currEtag

\* FSWriteFile up to the etag precondition: protected path, SafePath,
\* os.Stat, os.ReadFile.
StartWrite(r, path, content, ifMatchFileEtag, ifMatchWorkspaceHead) ==
    /\ ~panicked
    /\ Free(r)
    /\ nOps < MaxOps
    /\ nOps' = nOps + 1
    /\ \E res \in {ResolveForOp(<<SegW>>, path)} :
       LET overwritten == StatExists(res.path)
           isFile == overwritten /\ disk[res.path].kind = "file"
           currEtag == IF isFile THEN Etag(disk[res.path].data) ELSE NoEtag
           rec == [Arrived("write", path) EXCEPT
                      !.content = content, !.ifEtag = ifMatchFileEtag,
                      !.ifHead = ifMatchWorkspaceHead, !.abs = res.path,
                      !.overwritten = overwritten, !.currEtag = currEtag,
                      !.orig = IF isFile THEN disk[res.path].data ELSE <<>>]
       IN  req' = [req EXCEPT ![r] =
                     IF res.kind # "OK" THEN Failed(rec, res.kind)
                     ELSE IF etagConflict(ifMatchFileEtag, overwritten, currEtag)
                         THEN Failed(rec, "CONFLICT")
                     ELSE [rec EXCEPT !.pc = "head"]]
    /\ UNCHANGED <<disk, head, commits, pathVars, hubVars, watchVars, mgrVars>>

\* FSEditFile up to the etag precondition.
StartEdit(r, path, edit, ifMatchFileEtag, ifMatchWorkspaceHead, dryRun) ==
    /\ ~panicked
    /\ Free(r)
    /\ nOps < MaxOps
    /\ nOps' = nOps + 1
    /\ \E res \in {ResolveForOp(<<SegW>>, path)} :
       LET readable == StatExists(res.path) /\ disk[res.path].kind = "file"
           orig == IF readable THEN disk[res.path].data ELSE <<>>
           rec == [Arrived("edit", path) EXCEPT
                      !.edit = edit, !.ifEtag = ifMatchFileEtag,
                      !.ifHead = ifMatchWorkspaceHead, !.dryRun = dryRun,
                      !.abs = res.path, !.overwritten = readable,
                      !.currEtag = IF readable THEN Etag(orig) ELSE NoEtag,
                      !.orig = orig]
       IN  req' = [req EXCEPT ![r] =
                     IF res.kind # "OK" THEN Failed(rec, res.kind)
                     ELSE IF ~readable THEN Failed(rec, "NOT_FOUND")
                     ELSE IF etagConflict(ifMatchFileEtag, TRUE, Etag(orig))
                         THEN Failed(rec, "CONFLICT")
                     ELSE [rec EXCEPT !.pc = "head"]]
    /\ UNCHANGED <<disk, head, commits, pathVars, hubVars, watchVars, mgrVars>>

\* The text FSEditFile's edit produces.
Edited(orig, edit) == ReplaceAll(orig, edit.old, edit.new)

\* The workspace-HEAD precondition and the no-op test of FSWriteFile and
\* FSEditFile, and FSEditFile's dry run.
CheckHead(r) ==
    /\ ~panicked
    /\ req[r].pc = "head"
    /\ LET rec == req[r]
           newContent == Edited(rec.orig, rec.edit)
       IN  req' = [req EXCEPT ![r] =
             IF headConflict(rec.ifHead, head) THEN Failed(rec, "CONFLICT")
             ELSE IF rec.op = "write"
                 THEN IF writeNoOp(rec.overwritten, rec.currEtag, rec.content)
                         THEN [Succeeded(rec, 0, 0) EXCEPT !.resp.noop = TRUE]
                      ELSE [rec EXCEPT !.pc = "write"]
             ELSE IF newContent = rec.orig
                 THEN [Succeeded(rec, 0, 0) EXCEPT !.resp.noop = TRUE]
             ELSE IF rec.dryRun
                 THEN [Succeeded(rec, 0, 0) EXCEPT !.resp.dryRun = TRUE]
             ELSE [rec EXCEPT !.pc = "write", !.content = newContent]]
    /\ UNCHANGED <<disk, head, commits, nOps, pathVars, hubVars, watchVars, mgrVars>>

(***************************************************************************)
(* What the running watcher is told of a change of the disk.  fsnotify     *)
(* watches the root and the workspace directory, not the directories       *)
(* below: every entry of a watched directory that the change created,      *)
(* rewrote or removed gets its notifications, entries in any order.        *)
(***************************************************************************)
watchRest == <<clock, debounced, sweep, stamps, takes>>

WatchedEntries == {x \in Universe : Parent(x) \in {rootPath, workspaceW}}

\* The notifications for one entry: a new file is created, then written.
NotesOf(x, before, after) ==
    IF before = after THEN <<>>
    ELSE IF after.kind = "none" THEN <<[name |-> x, op |-> "Remove"]>>
    ELSE IF before.kind = "none"
        THEN <<[name |-> x, op |-> "Create"]>>
                \o (IF after.kind = "file" /\ after.data # <<>>
                       THEN <<[name |-> x, op |-> "Write"]>> ELSE <<>>)
    ELSE <<[name |-> x, op |-> "Write"]>>

Orders(S) == {f \in [1..Cardinality(S) -> S] : \A i, j \in 1..Cardinality(S) : f[i] = f[j] => i = j}

RECURSIVE Flatten(_)
Flatten(ss) == IF ss = <<>> THEN <<>> ELSE ss[1] \o Flatten(Tail(ss))

NotesFor(before, after) ==
    LET changed == {x \in WatchedEntries : before[x] # after[x]}
    IN  {Flatten([i \in 1..Len(o) |-> NotesOf(o[i], before[o[i]], after[o[i]])]) :
            o \in Orders(changed)}

\* The change made by an API step reaches w.Events like any other change.
Inotify ==
    /\ IF sweep.pc = "off" THEN UNCHANGED <<wEvents, nRaw>>
       ELSE \E notes \in NotesFor(disk, disk') :
               /\ wEvents' = wEvents \o notes
               /\ nRaw' = nRaw + Len(notes)
    /\ UNCHANGED watchRest

\* os.MkdirAll of the parent (FSWriteFile only) and os.WriteFile.
WriteBytes(r) ==
    /\ ~panicked
    /\ req[r].pc = "write"
    /\ LET rec == req[r]
           mkFails == rec.op = "write" /\ MkdirAllFails(disk, Parent(rec.abs))
           made == IF rec.op = "write" /\ ~mkFails
                      THEN MkdirAll(disk, Parent(rec.abs)) ELSE disk
           after == WriteFile(made, rec.abs, rec.content)
       IN  IF mkFails \/ WriteFileFails(made, rec.abs)
              THEN /\ req' = [req EXCEPT ![r] = Failed(rec, "INTERNAL")]
                   /\ disk' = made
              ELSE /\ disk' = after
                   /\ req' = [req EXCEPT ![r].pc = "commit",
                                         ![r].changed = Visible(after) # Visible(disk)]
    /\ UNCHANGED <<head, commits, nOps, pathVars, hubVars, mgrVars>>
    /\ Inotify

\* FSDeleteFile up to os.RemoveAll.
StartDelete(r, path) ==
    /\ ~panicked
    /\ Free(r)
    /\ nOps < MaxOps
    /\ nOps' = nOps + 1
    /\ \E res \in {ResolveForOp(<<SegW>>, path)} :
       LET rec == [Arrived("delete", path) EXCEPT !.abs = res.path]
       IN  IF res.kind # "OK"
              THEN /\ req' = [req EXCEPT ![r] = Failed(rec, res.kind)]
                   /\ UNCHANGED disk
              ELSE LET after == RemoveAll(disk, res.path) IN
                   /\ disk' = after
                   /\ req' = [req EXCEPT ![r] =
                                [rec EXCEPT !.pc = "commit",
                                            !.isDir = disk[res.path].kind = "dir",
                                            !.changed = Visible(after) # Visible(disk)]]
    /\ UNCHANGED <<head, commits, pathVars, hubVars, mgrVars>>
    /\ Inotify

\* FSMoveFile up to os.Rename.
\* The move that does not look at the destination: os.Rename replaces it.
StartMoveOver(r, source, destination) ==
    /\ ~panicked
    /\ Free(r)
    /\ nOps < MaxOps
    /\ nOps' = nOps + 1
    /\ \E rs \in {ResolveForOp(<<SegW>>, source)}, rd \in {ResolveForOp(<<SegW>>, destination)} :
       LET rec == [Arrived("move", source) EXCEPT !.dst = destination, !.abs = rd.path]
       IN  IF rs.kind = "NOT_FOUND" \/ rd.kind = "NOT_FOUND"
              THEN req' = [req EXCEPT ![r] = Failed(rec, "NOT_FOUND")] /\ UNCHANGED disk
           ELSE IF rs.kind # "OK" \/ rd.kind # "OK"
              THEN req' = [req EXCEPT ![r] = Failed(rec, "OUT_OF_BOUNDS")] /\ UNCHANGED disk
           ELSE IF RenameFails(disk, rs.path, rd.path)
              THEN req' = [req EXCEPT ![r] = Failed(rec, "INTERNAL")] /\ UNCHANGED disk
           ELSE /\ disk' = Rename(disk, rs.path, rd.path)
                /\ req' = [req EXCEPT ![r] = [rec EXCEPT !.pc = "commit", !.changed = TRUE]]
    /\ UNCHANGED <<head, commits, pathVars, hubVars, mgrVars>>
    /\ Inotify

StartMove(r, source, destination) ==
    /\ ~panicked
    /\ Free(r)
    /\ nOps < MaxOps
    /\ nOps' = nOps + 1
    /\ \E rs \in {ResolveForOp(<<SegW>>, source)}, rd \in {ResolveForOp(<<SegW>>, destination)} :
       LET rec == [Arrived("move", source) EXCEPT !.dst = destination, !.abs = rd.path]
       IN  IF rs.kind = "NOT_FOUND" \/ rd.kind = "NOT_FOUND"
              THEN req' = [req EXCEPT ![r] = Failed(rec, "NOT_FOUND")] /\ UNCHANGED disk
           ELSE IF rs.kind # "OK" \/ rd.kind # "OK"
              THEN req' = [req EXCEPT ![r] = Failed(rec, "OUT_OF_BOUNDS")] /\ UNCHANGED disk
           ELSE IF StatExists(rd.path)
              THEN req' = [req EXCEPT ![r] = Failed(rec, "ALREADY_EXISTS")] /\ UNCHANGED disk
           ELSE IF RenameFails(disk, rs.path, rd.path)
              THEN req' = [req EXCEPT ![r] = Failed(rec, "INTERNAL")] /\ UNCHANGED disk
           ELSE LET after == Rename(disk, rs.path, rd.path) IN
                /\ disk' = after
                /\ req' = [req EXCEPT ![r] =
                             [rec EXCEPT !.pc = "commit",
                                         !.changed = Visible(after) # Visible(disk)]]
    /\ UNCHANGED <<head, commits, pathVars, hubVars, mgrVars>>
    /\ Inotify

\* FSCreateDirectory up to the placeholder file.
StartMkdir(r, path) ==
    /\ ~panicked
    /\ Free(r)
    /\ nOps < MaxOps
    /\ nOps' = nOps + 1
    /\ \E res \in {ResolveForOp(<<SegW>>, path)} :
       LET rec == [Arrived("mkdir", path) EXCEPT !.abs = res.path,
                                                 !.created = ~StatExists(res.path)]
           gk  == res.path \o <<SegKeep>>
       IN  IF res.kind # "OK"
              THEN req' = [req EXCEPT ![r] = Failed(rec, res.kind)] /\ UNCHANGED disk
           ELSE IF MkdirAllFails(disk, res.path)
              THEN req' = [req EXCEPT ![r] = Failed(rec, "INTERNAL")] /\ UNCHANGED disk
           ELSE LET made  == MkdirAll(disk, res.path)
                    after == IF gk \in Universe /\ made[gk].kind = "none"
                                THEN [made EXCEPT ![gk] = File(<<>>)] ELSE made
                IN  /\ disk' = after
                    /\ req' = [req EXCEPT ![r] =
                                 [rec EXCEPT !.pc = "commit", !.isDir = TRUE,
                                             !.wrote = after # disk,
                                             !.changed = Visible(after) # Visible(disk)]]
    /\ UNCHANGED <<head, commits, pathVars, hubVars, mgrVars>>
    /\ Inotify

\* FSReadTextFile without head and tail: the whole text, its etag.
StartRead(r, path) ==
    /\ ~panicked
    /\ Free(r)
    /\ nOps < MaxOps
    /\ nOps' = nOps + 1
    /\ \E res \in {ResolveForOp(<<SegW>>, path)} :
       LET rec == [Arrived("read", path) EXCEPT !.abs = res.path]
       IN  req' = [req EXCEPT ![r] =
                     IF res.kind # "OK" THEN Failed(rec, res.kind)
                     ELSE IF ~StatExists(res.path) THEN Failed(rec, "NOT_FOUND")
                     ELSE IF disk[res.path].kind # "file" THEN Failed(rec, "INTERNAL")
                     ELSE Succeeded([rec EXCEPT !.content = disk[res.path].data,
                                                !.currEtag = Etag(disk[res.path].data)], 0, 0)]
    /\ UNCHANGED <<disk, head, commits, pathVars, hubVars, watchVars, mgrVars>>

\* FSGetFileInfo: the type of the entry.
StartInfo(r, path) ==
    /\ ~panicked
    /\ Free(r)
    /\ nOps < MaxOps
    /\ nOps' = nOps + 1
    /\ \E res \in {ResolveForOp(<<SegW>>, path)} :
       LET rec == [Arrived("info", path) EXCEPT !.abs = res.path]
       IN  req' = [req EXCEPT ![r] =
                     IF res.kind # "OK" THEN Failed(rec, res.kind)
                     ELSE IF ~StatExists(res.path) THEN Failed(rec, "NOT_FOUND")
                     ELSE Succeeded([rec EXCEPT !.isDir = disk[res.path].kind = "dir"], 0, 0)]
    /\ UNCHANGED <<disk, head, commits, pathVars, hubVars, watchVars, mgrVars>>

\* os.ReadDir: the names of the entries of a directory.
ReadDir(dk, abs) ==
    {x[Len(x)] : x \in {y \in Universe : /\ Len(y) = Len(abs) + 1
                                          /\ IsUnder(y, abs)
                                          /\ dk[y].kind # "none"}}

\* os.ReadDir fails: no such directory.
ReadDirFails(dk, abs) == abs \notin Universe \/ dk[abs].kind # "dir"

Star == <<"*">>

\* filepath.Match for the patterns used here: "*" and literal names.
Match(pattern, name) == pattern = Star \/ pattern = name

\* The entries FSListDirectory and FSListDirectoryWithSizes keep.
ListEntries(dk, abs) == {<<n>> : n \in {m \in ReadDir(dk, abs) : ~isProtectedName(m)}}

\* FSListDirectory
StartList(r, path) ==
    /\ ~panicked
    /\ Free(r)
    /\ nOps < MaxOps
    /\ nOps' = nOps + 1
    /\ \E res \in {SafePath(<<SegW>>, path)} :
       LET rec == [Arrived("list", path) EXCEPT !.abs = res.path]
       IN  req' = [req EXCEPT ![r] =
                     IF ~res.ok THEN Failed(rec, "OUT_OF_BOUNDS")
                     ELSE IF ReadDirFails(disk, res.path) THEN Failed(rec, "INTERNAL")
                     ELSE Succeeded([rec EXCEPT !.listing = ListEntries(disk, res.path)], 0, 0)]
    /\ UNCHANGED <<disk, head, commits, pathVars, hubVars, watchVars, mgrVars>>

\* FSListDirectoryWithSizes: the same entries, with type and size, sorted.
StartListSizes(r, path) ==
    /\ ~panicked
    /\ Free(r)
    /\ nOps < MaxOps
    /\ nOps' = nOps + 1
    /\ \E res \in {SafePath(<<SegW>>, path)} :
       LET rec == [Arrived("list_sizes", path) EXCEPT !.abs = res.path]
       IN  req' = [req EXCEPT ![r] =
                     IF ~res.ok THEN Failed(rec, "OUT_OF_BOUNDS")
                     ELSE IF ReadDirFails(disk, res.path) THEN Failed(rec, "INTERNAL")
                     ELSE Succeeded([rec EXCEPT !.listing = ListEntries(disk, res.path)], 0, 0)]
    /\ UNCHANGED <<disk, head, commits, pathVars, hubVars, watchVars, mgrVars>>

\* filepath.WalkDir with FSSearchFiles' callback: the files below `at` that
\* the walk reaches and the callback keeps, as paths relative to the
\* workspace root.  A directory with a protected name is skipped with all
\* below it, a file with a protected name is passed over.
RECURSIVE Walk(_, _, _, _)
Walk(dk, at, pattern, excludePatterns) ==
    LET name == at[Len(at)] IN
    IF dk[at].kind = "dir"
        THEN IF isProtectedName(name) THEN {}
             ELSE UNION {Walk(dk, at \o <<n>>, pattern, excludePatterns) : n \in ReadDir(dk, at)}
    ELSE IF isProtectedName(name) THEN {}
    ELSE IF Match(pattern, name) /\ ~\E ex \in excludePatterns : Match(ex, name)
        THEN {SubSeq(at, Len(workspaceW) + 1, Len(at))}
    ELSE {}

\* FSSearchFiles
StartSearch(r, path, pattern, excludePatterns) ==
    /\ ~panicked
    /\ Free(r)
    /\ nOps < MaxOps
    /\ nOps' = nOps + 1
    /\ \E res \in {SafePath(<<SegW>>, path)} :
       LET rec == [Arrived("search", path) EXCEPT !.abs = res.path]
       IN  req' = [req EXCEPT ![r] =
                     IF ~res.ok THEN Failed(rec, "OUT_OF_BOUNDS")
                     ELSE IF ~StatExists(res.path) THEN Failed(rec, "INTERNAL")
                     ELSE Succeeded([rec EXCEPT !.listing =
                                        Walk(disk, res.path, pattern, excludePatterns)], 0, 0)]
    /\ UNCHANGED <<disk, head, commits, pathVars, hubVars, watchVars, mgrVars>>

\* buildTree: the nodes of the tree below root, each as the path of names
\* that leads to it; an entry is left out when an exclude pattern matches its
\* name.
RECURSIVE buildTree(_, _, _)
buildTree(dk, root, excludePatterns) ==
    UNION {{<<n>>} \cup
             (IF dk[root \o <<n>>].kind = "dir"
                 THEN {<<n>> \o c : c \in buildTree(dk, root \o <<n>>, excludePatterns)}
                 ELSE {})
           : n \in {m \in ReadDir(dk, root) : ~\E ex \in excludePatterns : Match(ex, m)}}

\* FSDirectoryTree
StartTree(r, path, excludePatterns) ==
    /\ ~panicked
    /\ Free(r)
    /\ nOps < MaxOps
    /\ nOps' = nOps + 1
    /\ \E res \in {SafePath(<<SegW>>, path)} :
       LET rec == [Arrived("tree", path) EXCEPT !.abs = res.path]
       IN  req' = [req EXCEPT ![r] =
                     IF ~res.ok THEN Failed(rec, "OUT_OF_BOUNDS")
                     ELSE IF ReadDirFails(disk, res.path) THEN Failed(rec, "INTERNAL")
                     ELSE Succeeded([rec EXCEPT !.listing =
                                        buildTree(disk, res.path, excludePatterns)], 0, 0)]
    /\ UNCHANGED <<disk, head, commits, pathVars, hubVars, watchVars, mgrVars>>

\* git.PlainOpen finds the repository of the workspace.
RepoExists(dk) == dk[workspaceW].kind = "dir" /\ dk[workspaceW \o <<SegGit>>].kind = "dir"

\* Manager.List: the directories below the root that hold a repository.
List(dk) ==
    {x \in {workspaceW, workspaceWX} :
        /\ dk[x].kind = "dir"
        /\ (x \o <<SegGit>>) \in Universe
        /\ dk[x \o <<SegGit>>].kind = "dir"}

\* Manager.Commit: stage everything and commit.  It fails without a
\* repository.  A commit that would change nothing is created or refused, as
\* the version of the backend has it.
CommitStep(r, fails) ==
    /\ ~panicked
    /\ req[r].pc = "commit"
    /\ ~RepoExists(disk) => fails
    /\ fails => ~RepoExists(disk) \/ Tree(disk) = commits[Len(commits)].tree
    /\ IF fails
          THEN /\ req' = [req EXCEPT ![r] = Failed(req[r], "INTERNAL")]
               /\ UNCHANGED <<head, commits>>
          ELSE /\ head' = Len(commits) + 1
               /\ commits' = Append(commits, [tree |-> Tree(disk), opNo |-> req[r].opNo])
               /\ req' = [req EXCEPT ![r].pc = "publish", ![r].commit = Len(commits) + 1]
    /\ UNCHANGED <<disk, nOps, pathVars, hubVars, watchVars, mgrVars>>

\* The call that goes on to publish although its commit failed.
CommitFaultPublishes(r) ==
    /\ ~panicked
    /\ req[r].pc = "commit"
    /\ req' = [req EXCEPT ![r].pc = "publish"]
    /\ UNCHANGED <<disk, head, commits, nOps, pathVars, hubVars, watchVars, mgrVars>>

\* Manager.Commit returns an error of the repository (PlainOpen, Worktree,
\* AddGlob or Commit): no commit object is made and HEAD stays.
CommitFault(r) ==
    /\ ~panicked
    /\ req[r].pc = "commit"
    /\ req' = [req EXCEPT ![r] = Failed(req[r], "INTERNAL")]
    /\ UNCHANGED <<disk, head, commits, nOps, pathVars, hubVars, watchVars, mgrVars>>

\* The commit hash an event carries, taken from the commit before.
commitOfStale(rec) == rec.commit - 1

\* The commit hash an event carries: commitCopy := commit.
commitOf(rec) == rec.commit

\* The event that names every write an update and a move by its source.
EventOfSource(rec) ==
    [ZeroEvent EXCEPT
        !.type = CASE rec.op \in {"write", "edit"} -> "file.updated"
                   [] rec.op = "delete" -> IF rec.isDir THEN "dir.deleted" ELSE "file.deleted"
                   [] rec.op = "move" -> "file.moved"
                   [] OTHER -> "dir.created",
        !.path = rec.path,
        !.isDir = rec.isDir,
        !.commit = rec.commit]

\* The event an operation publishes after its commit.
EventOf(rec) ==
    [ZeroEvent EXCEPT
        !.type = CASE rec.op = "write" -> IF rec.overwritten THEN "file.updated" ELSE "file.created"
                   [] rec.op = "edit" -> "file.updated"
                   [] rec.op = "delete" -> IF rec.isDir THEN "dir.deleted" ELSE "file.deleted"
                   [] rec.op = "move" -> "file.moved"
                   [] OTHER -> "dir.created",
        !.path = IF rec.op = "move" THEN rec.dst ELSE rec.path,
        !.prevPath = IF rec.op = "move" THEN rec.path ELSE NoPrevPath,
        !.isDir = IF rec.op = "move" THEN StatExists(rec.abs) /\ disk[rec.abs].kind = "dir"
                  ELSE rec.isDir,
        !.commit = commitOf(rec)]

\* publishWorkspaceEvent: Publish is entered.  The response is ready; the
\* call returns it when Publish has returned.
ReqPublish(r) ==
    /\ ~panicked
    /\ req[r].pc = "publish"
    /\ PubBegin(r, "w", EventOf(req[r]))
    /\ req' = [req EXCEPT ![r] =
                 [Succeeded(req[r], req[r].commit,
                            IF req[r].op \in {"write", "edit"} THEN Len(req[r].content) ELSE 0)
                    EXCEPT !.pc = "publishing"]]
    /\ UNCHANGED <<disk, head, commits, nOps, nPub, pathVars, watchVars, mgrVars>>

(***************************************************************************)
(* SpecHub: the hub used by concurrent tasks.                              *)
(***************************************************************************)
SinceInputs == {0, 1, 2}

\* What a publisher task hands to Publish: no ID, no timestamp.
PayloadOf(p) == [ZeroEvent EXCEPT !.type = "file.updated", !.path = <<SegA>>, !.actor = p]

HubPublish(p, w) ==
    /\ nPub < MaxPub
    /\ PubBegin(p, w, PayloadOf(p))
    /\ nPub' = nPub + 1
    /\ UNCHANGED <<pathVars, fsVars, watchVars, mgrVars>>

HubPubLock(p) == PubLock(p) /\ UNCHANGED <<nPub, pathVars, fsVars, watchVars, mgrVars>>

HubPubSend1(p, s) == PubSend1(p, s) /\ UNCHANGED <<nPub, pathVars, fsVars, watchVars, mgrVars>>

HubPubDrain(p) == PubDrain(p) /\ UNCHANGED <<nPub, pathVars, fsVars, watchVars, mgrVars>>

HubPubSend2(p) == PubSend2(p) /\ UNCHANGED <<nPub, pathVars, fsVars, watchVars, mgrVars>>

HubSubscribe(s, w, sinceID, buffer) == SubBegin(s, w, sinceID, buffer) /\ UNCHANGED <<nPub, pathVars, fsVars, watchVars, mgrVars>>

HubSubLock(s) == SubLock(s) /\ UNCHANGED <<nPub, pathVars, fsVars, watchVars, mgrVars>>

HubReplaySend(s) == ReplaySend(s) /\ UNCHANGED <<nPub, pathVars, fsVars, watchVars, mgrVars>>

HubRecv(s) == Recv(s) /\ UNCHANGED <<nPub, pathVars, fsVars, watchVars, mgrVars>>

HubUnsubscribe(s) == Unsubscribe(s) /\ UNCHANGED <<nPub, pathVars, fsVars, watchVars, mgrVars>>

HubClose == Close /\ UNCHANGED <<nPub, pathVars, fsVars, watchVars, mgrVars>>

(***************************************************************************)
(* The filesystem watcher (StartFSWatcher).  Time is counted in units of   *)
(* 50 ms.  The consumer goroutine reads fsnotify's raw notifications,      *)
(* classifies each one and stamps its key in the debounced map.  The       *)
(* sweeper goroutine wakes on a 100 ms ticker, reads the time, then under  *)
(* the lock takes the keys whose stamp is at least the window old, and     *)
(* after the lock publishes one event per key taken.  Which directories    *)
(* are watched is not modelled: the notifications are the input, and they  *)
(* name paths below the root.                                              *)
(***************************************************************************)
DebounceWindow == 4     \* debounceWindow = 200 ms
SweepPeriod    == 2     \* time.NewTicker(100 ms)
MaxClock == 8           \* the clock stops here
MaxRaw   == 3           \* raw notifications delivered

NoTime == -1

EventTypes == {"file.created", "file.updated", "file.deleted", "dir.created", "dir.deleted"}

\* The paths inside the workspace that the notifications name: a, .git,
\* .gitkeep and .git/a.
WatchRels == {<<SegA>>, <<SegGit>>, <<SegKeep>>, <<SegGit, SegA>>}

\* The keys of the debounced map for the notifications that are delivered:
\* every kind of change to a, the creation of .gitkeep, a change of mode of
\* .git and a write to .git/a.
WatchKeys ==
    {k \in [wsID : {SegW}, path : WatchRels, typ : EventTypes] :
        \/ k.path = <<SegA>>
        \/ k.path = <<SegKeep>> /\ k.typ = "file.created"
        \/ k.path \in {<<SegGit>>, <<SegGit, SegA>>} /\ k.typ = "file.updated"}

\* StartFSWatcher was not called.
IdleSweep == [pc |-> "off", now |-> 0, toSend |-> {}, nextTick |-> SweepPeriod]

\* The sweeper waits for its first tick.
StartedSweep == [IdleSweep EXCEPT !.pc = "wait"]

IdleWatch ==
    /\ clock = 0
    /\ wEvents = <<>>
    /\ nRaw = 0
    /\ debounced = [k \in WatchKeys |-> NoTime]
    /\ sweep = IdleSweep
    /\ stamps = [k \in WatchKeys |-> <<>>]
    /\ takes = [k \in WatchKeys |-> <<>>]

StartedWatch ==
    /\ clock = 0
    /\ wEvents = <<>>
    /\ nRaw = 0
    /\ debounced = [k \in WatchKeys |-> NoTime]
    /\ sweep = StartedSweep
    /\ stamps = [k \in WatchKeys |-> <<>>]
    /\ takes = [k \in WatchKeys |-> <<>>]

\* splitPath: the workspace ID and the path inside the workspace, or two
\* empty strings.  filepath.Rel is computed for paths below the root.
splitPath(abs) ==
    IF ~HasPrefix(abs, rootPath) \/ abs = rootPath
    THEN [wsID |-> EmptySeg, rel |-> EmptyStr]
    ELSE LET parts == SubSeq(abs, Len(rootPath) + 1, Len(abs))
         IN  [wsID |-> parts[1],
              rel  |-> IF Len(parts) = 1 THEN EmptyStr ELSE SubSeq(parts, 2, Len(parts))]

\* The consumer's classification of a raw notification.
classify(op, isDir) ==
    CASE op = "Create" -> IF isDir THEN "dir.created" ELSE "file.created"
      [] op \in {"Remove", "Rename"} -> IF isDir THEN "dir.deleted" ELSE "file.deleted"
      [] op \in {"Write", "Chmod"} -> "file.updated"
      [] OTHER -> ""

\* An external process changes a file below a watched directory; fsnotify
\* queues the notification.
Notify(name, op, after) ==
    /\ nRaw < MaxRaw
    /\ nRaw' = nRaw + 1
    /\ disk' = [disk EXCEPT ![name] = after]
    /\ wEvents' = Append(wEvents, [name |-> name, op |-> op])
    /\ UNCHANGED <<clock, debounced, sweep, stamps, takes>>
    /\ UNCHANGED <<head, commits, req, nOps, pathVars, hubVars, mgrVars>>

ExtCreate(name) == Notify(name, "Create", File(<<>>))

ExtWrite(name) == StatExists(name) /\ Notify(name, "Write", File(ContentX))

ExtRemove(name) == StatExists(name) /\ Notify(name, "Remove", Absent)

\* A change of mode of the workspace directory itself, seen by the watch on
\* the root.
ExtChmodDir(name) == Notify(name, "Chmod", disk[name])

\* A file inside a watched .git directory is written: by git, or by a
\* commit of the server.  The files of the repository are not held in disk.
ExtRepoWrite(name) ==
    /\ nRaw < MaxRaw
    /\ nRaw' = nRaw + 1
    /\ wEvents' = Append(wEvents, [name |-> name, op |-> "Write"])
    /\ UNCHANGED <<clock, debounced, sweep, stamps, takes>>
    /\ UNCHANGED <<fsVars, pathVars, hubVars, mgrVars>>

\* case ev := <-w.Events
Consume ==
    /\ wEvents # <<>>
    /\ wEvents' = Tail(wEvents)
    /\ LET ev    == Head(wEvents)
           sp    == splitPath(ev.name)
           isDir == StatExists(ev.name) /\ disk[ev.name].kind = "dir"
           typ   == classify(ev.op, isDir)
           k     == [wsID |-> sp.wsID, path |-> sp.rel, typ |-> typ]
       IN  IF sp.wsID = EmptySeg \/ sp.rel = EmptyStr \/ typ = ""
           THEN UNCHANGED <<debounced, stamps>>
           ELSE /\ debounced' = [debounced EXCEPT ![k] = clock]
                /\ stamps' = [stamps EXCEPT ![k] = Append(@, clock)]
    /\ UNCHANGED <<clock, nRaw, sweep, takes, fsVars, pathVars, hubVars, mgrVars>>

\* The first tick of the 100 ms grid after time c.
NextGrid(c) == c - (c % SweepPeriod) + SweepPeriod

\* case <-coalescer.C, then now := time.Now().  The ticker's channel holds
\* one tick: a sweeper that is late finds either the tick that waited or
\* the next one of the grid.
SweepBegin ==
    /\ sweep.pc = "wait"
    /\ pubs[WatchTask].pc = "idle"
    /\ clock >= sweep.nextTick
    /\ \E nt \in {sweep.nextTick + SweepPeriod, NextGrid(clock)} :
          sweep' = [sweep EXCEPT !.pc = "lock", !.now = clock, !.nextTick = nt]
    /\ UNCHANGED <<clock, wEvents, nRaw, debounced, stamps, takes>>
    /\ UNCHANGED <<fsVars, pathVars, hubVars, mgrVars>>

expiredAtOnce(now, t) == TRUE

expiredLate(now, t) == now - t >= DebounceWindow + SweepPeriod

\* now.Sub(t) >= debounceWindow
expired(now, t) == now - t >= DebounceWindow

\* The loop over the map under debMu; now is not read after it.
SweepLock ==
    /\ sweep.pc = "lock"
    /\ LET toSend == {k \in WatchKeys : debounced[k] # NoTime /\ expired(sweep.now, debounced[k])}
       IN  /\ debounced' = [k \in WatchKeys |-> IF k \in toSend THEN NoTime ELSE debounced[k]]
           /\ sweep' = [sweep EXCEPT !.pc = IF toSend = {} THEN "wait" ELSE "flush",
                                     !.now = 0, !.toSend = toSend]
           /\ takes' = [k \in WatchKeys |->
                          IF k \in toSend THEN Append(takes[k], Len(stamps[k])) ELSE takes[k]]
    /\ UNCHANGED <<clock, wEvents, nRaw, stamps>>
    /\ UNCHANGED <<fsVars, pathVars, hubVars, mgrVars>>

\* The isDir argument the sweeper gives to flush.
flushIsDir(k) ==
    \/ k.typ \in {"file.created", "dir.created"}
    \/ k.typ \in {"file.deleted", "dir.deleted"} /\ k.path[Len(k.path)] = EmptySeg

\* The workspace ID as the hub knows it.
HubName(seg) == IF seg = SegW THEN "w" ELSE "v"

FlushEvent(k) ==
    [ZeroEvent EXCEPT !.type = k.typ, !.path = k.path, !.isDir = flushIsDir(k),
                      !.actor = "fswatch"]

\* flush for one of the keys taken; Publish returns before the next one.
SweepFlush(k) ==
    /\ sweep.pc = "flush"
    /\ k \in sweep.toSend
    /\ pubs[WatchTask].pc = "idle"
    /\ sweep' = [sweep EXCEPT !.toSend = @ \ {k},
                              !.pc = IF sweep.toSend = {k} THEN "wait" ELSE "flush"]
    /\ IF k.wsID = EmptySeg \/ k.path = EmptyStr \/ isProtectedName(k.path[Len(k.path)])
          THEN UNCHANGED <<hws, closed, chans, pubs, subT, published, received, panicked>>
          ELSE PubBegin(WatchTask, HubName(k.wsID), FlushEvent(k))
    /\ UNCHANGED <<clock, wEvents, nRaw, debounced, stamps, takes>>
    /\ UNCHANGED <<nPub, fsVars, pathVars, mgrVars>>

\* Time passes, whatever the goroutines are doing.
Tick ==
    /\ clock < MaxClock
    /\ clock' = clock + 1
    /\ UNCHANGED <<wEvents, nRaw, debounced, sweep, stamps, takes>>
    /\ UNCHANGED <<fsVars, pathVars, hubVars, mgrVars>>

\* The goroutines are never late: a notification is consumed, a tick is
\* served and a Publish returns before 50 ms have passed.
Prompt ==
    /\ wEvents = <<>>
    /\ sweep.pc = "wait"
    /\ clock < sweep.nextTick
    /\ pubs[WatchTask].pc = "idle"

TickPrompt == Prompt /\ Tick

(***************************************************************************)
(* Manager.Create (pkg/workspace/manager.go) and GenerateSlug.  A name and *)
(* a slug are sequences of characters.  The calls are served one after the *)
(* other; time is counted in seconds, the resolution of the suffix.        *)
(***************************************************************************)
MaxCreate == 3      \* Create calls made
MaxSec    == 2      \* the clock of Create stops here

maxSlugLength == 64

UpperChars == <<"A", "B", "C", "D", "E", "F", "G", "H", "I", "J", "K", "L", "M",
                "N", "O", "P", "Q", "R", "S", "T", "U", "V", "W", "X", "Y", "Z">>
LowerChars == <<"a", "b", "c", "d", "e", "f", "g", "h", "i", "j", "k", "l", "m",
                "n", "o", "p", "q", "r", "s", "t", "u", "v", "w", "x", "y", "z">>
DigitChars == <<"0", "1", "2", "3", "4", "5", "6", "7", "8", "9">>

Range(s) == {s[i] : i \in 1..Len(s)}

\* strings.ToLower
ToLowerChar(c) ==
    IF c \in Range(UpperChars)
    THEN LowerChars[CHOOSE i \in 1..Len(UpperChars) : UpperChars[i] = c]
    ELSE c

ToLower(s) == [i \in 1..Len(s) |-> ToLowerChar(s[i])]

\* regexp ReplaceAllString(s, "-") for a pattern "one or more (or two or
\* more) characters of set": every maximal run of the set's characters
\* that is long enough becomes one hyphen.
RECURSIVE ReplaceRuns(_, _, _)
ReplaceRuns(s, set, least) ==
    IF s = <<>> THEN <<>>
    ELSE IF s[1] \notin set THEN <<s[1]>> \o ReplaceRuns(Tail(s), set, least)
    ELSE LET run == CHOOSE n \in 1..Len(s) :
                       /\ \A i \in 1..n : s[i] \in set
                       /\ n = Len(s) \/ s[n + 1] \notin set
         IN  (IF run >= least THEN <<"-">> ELSE SubSeq(s, 1, run))
                \o ReplaceRuns(SubSeq(s, run + 1, Len(s)), set, least)

\* separatorRegex = [\s-]+
SeparatorChars == {" ", "-"}

\* invalidCharsRegex = [^a-z0-9-]
SlugChars == Range(LowerChars) \cup Range(DigitChars) \cup {"-"}

\* strings.Trim(s, "-")
RECURSIVE Trim(_)
Trim(s) ==
    IF s = <<>> THEN s
    ELSE IF s[1] = "-" THEN Trim(Tail(s))
    ELSE IF s[Len(s)] = "-" THEN Trim(SubSeq(s, 1, Len(s) - 1))
    ELSE s

GenerateSlug(name) ==
    LET lowered   == ToLower(name)
        separated == ReplaceRuns(lowered, SeparatorChars, 1)
        valid     == SelectSeq(separated, LAMBDA c : c \in SlugChars)
        collapsed == ReplaceRuns(valid, {"-"}, 2)
        trimmed   == Trim(collapsed)
    IN  IF Len(trimmed) > maxSlugLength
        THEN Trim(SubSeq(trimmed, 1, maxSlugLength))
        ELSE trimmed

\* time.Now().Format("20060102150405"): fourteen digits, the last of them
\* the second of the minute that is running.
TimeStamp(s) ==
    <<"2", "0", "2", "6", "0", "1", "0", "2", "1", "5", "0", "4", "0">> \o <<DigitChars[s + 1]>>

\* os.Stat(filepath.Join(rootPath, slug)) finds something: the root itself
\* for an empty slug.
slugTaken(dirs, slug) == slug = <<>> \/ slug \in dirs

PlainInitAgain(repos, slug) == [err |-> "", repos |-> repos \cup {slug}]

\* git.PlainInit refuses a directory that holds a repository.
PlainInit(repos, slug) ==
    IF slug \in repos THEN [err |-> "already exists", repos |-> repos]
    ELSE [err |-> "", repos |-> repos \cup {slug}]

\* The placeholder file and the initial commit come after the repository;
\* their failure is not reported, and they do not change the ID.
Create(name) ==
    /\ Len(calls) < MaxCreate
    /\ LET first == GenerateSlug(name)
           slug  == IF slugTaken(wsDirs, first)
                    THEN first \o <<"-">> \o TimeStamp(sec) ELSE first
           init  == PlainInit(wsRepos, slug)
       IN  /\ wsDirs' = wsDirs \cup {slug}
           /\ wsRepos' = init.repos
           /\ calls' = Append(calls, [name |-> name, err |-> init.err,
                                      id |-> IF init.err = "" THEN slug ELSE <<>>])
    /\ UNCHANGED <<sec, fsVars, pathVars, hubVars, watchVars>>

Second ==
    /\ sec < MaxSec
    /\ sec' = sec + 1
    /\ UNCHANGED <<wsDirs, wsRepos, calls, fsVars, pathVars, hubVars, watchVars>>

IdleMgr ==
    /\ sec = 0
    /\ wsDirs = {}
    /\ wsRepos = {}
    /\ calls = <<>>

\* The root with two workspace directories.
InitDisk ==
    [x \in Universe |-> IF x \in {rootPath, workspaceW, workspaceWX} THEN Directory ELSE Absent]

IdleFs ==
    /\ disk = InitDisk
    /\ head = 0
    /\ commits = <<>>
    /\ req = [r \in ReqSlots |-> IdleReq]
    /\ nOps = 0

IdlePath ==
    /\ pIn = [ws |-> EmptyStr, rel |-> EmptyStr]
    /\ pOut = NoResult

InitHub == HubInit /\ IdleFs /\ IdlePath /\ IdleWatch /\ IdleMgr

\* Two publisher tasks and one subscriber on one workspace.
NextHub ==
    \/ \E p \in PubTasks : HubPublish(p, "w")
    \/ \E p \in PubTasks : HubPubLock(p)
    \/ \E p \in PubTasks : HubPubSend1(p, "s1")
    \/ \E p \in PubTasks : HubPubDrain(p)
    \/ \E p \in PubTasks : HubPubSend2(p)
    \/ \E sinceID \in SinceInputs, buffer \in 1..MaxBuf : HubSubscribe("s1", "w", sinceID, buffer)
    \/ HubSubLock("s1")
    \/ HubReplaySend("s1")
    \/ HubRecv("s1")
    \/ HubUnsubscribe("s1")
    \/ HubClose

SpecHub == InitHub /\ [][NextHub]_vars

(***************************************************************************)
(* SpecSubs: two subscriptions, on one workspace or on two, each with its  *)
(* unsubscribe function called up to MaxUnsub times, one publisher of the  *)
(* first workspace, and Close.                                             *)
(***************************************************************************)
NextSubs ==
    \/ HubPublish("p1", "w")
    \/ HubPubLock("p1")
    \/ \E s \in SubTasks : HubPubSend1("p1", s)
    \/ HubPubDrain("p1")
    \/ HubPubSend2("p1")
    \/ \E s \in SubTasks, w \in HubWS : HubSubscribe(s, w, 0, 1)
    \/ \E s \in SubTasks : HubSubLock(s)
    \/ \E s \in SubTasks : HubReplaySend(s)
    \/ \E s \in SubTasks : HubUnsubscribe(s)
    \/ HubClose

SpecSubs == InitHub /\ [][NextSubs]_vars

(***************************************************************************)
(* SpecFanout: two publishers and two subscribers of one workspace, both   *)
(* subscribed before the first event.  The reader of the first             *)
(* subscription never receives; the second reads.  Nothing is cancelled.   *)
(* The runtime schedules every task that can run: each publisher's steps   *)
(* are weakly fair.                                                        *)
(***************************************************************************)
\* The hub after Subscribe("w", 0, buffer) was called twice.
SubscribedWith(buffer) ==
    /\ hws = [w \in HubWS |->
                IF w = "w" THEN [NewWS EXCEPT !.subs = {[id |-> 1, ch |-> "s1"],
                                                        [id |-> 2, ch |-> "s2"]},
                                              !.nextSubID = 3]
                ELSE NoWS]
    /\ closed = FALSE
    /\ chans = [s \in SubTasks |-> [made |-> TRUE, q |-> <<>>, cap |-> buffer, closed |-> FALSE]]
    /\ pubs = [p \in Callers |-> IdlePub]
    /\ subT = [s \in SubTasks |->
                 [IdleSub EXCEPT !.pc = "subscribed", !.ws = "w",
                                 !.id = IF s = "s1" THEN 1 ELSE 2]]
    /\ published = [w \in HubWS |-> <<>>]
    /\ received = [s \in SubTasks |-> <<>>]
    /\ nPub = 0
    /\ panicked = FALSE

\* The hub after Subscribe("w", 0, 1) was called twice.
SubscribedHub == SubscribedWith(1)

InitFanout == SubscribedHub /\ IdleFs /\ IdlePath /\ IdleWatch /\ IdleMgr

NextFanout ==
    \/ \E p \in PubTasks : HubPublish(p, "w")
    \/ \E p \in PubTasks : HubPubLock(p)
    \/ \E p \in PubTasks, s \in SubTasks : HubPubSend1(p, s)
    \/ \E p \in PubTasks : HubPubDrain(p)
    \/ \E p \in PubTasks : HubPubSend2(p)
    \/ HubRecv("s2")

\* The steps of the Publish call of task p, once entered.
PubStep(p) ==
    \/ HubPubLock(p)
    \/ \E s \in SubTasks : HubPubSend1(p, s)
    \/ HubPubDrain(p)
    \/ HubPubSend2(p)

SpecFanout ==
    InitFanout /\ [][NextFanout]_vars /\ \A p \in PubTasks : WF_vars(PubStep(p))

(***************************************************************************)
(* SpecSlow: the tasks of SpecFanout with buffers of 1 to MaxBuf events.   *)
(***************************************************************************)
InitSlow ==
    /\ \E buffer \in 1..MaxBuf : SubscribedWith(buffer)
    /\ IdleFs /\ IdlePath /\ IdleWatch /\ IdleMgr

SpecSlow == InitSlow /\ [][NextFanout]_vars

(***************************************************************************)
(* SpecPath: SafePath and the head of a file operation, applied once to    *)
(* arguments drawn from the bounded sets.                                  *)
(***************************************************************************)
InitPath ==
    /\ pIn \in [ws : WsIDInputs, rel : RelInputs]
    /\ pOut = NoResult
    /\ IdleFs
    /\ HubInit
    /\ IdleWatch
    /\ IdleMgr

CallSafePath ==
    /\ pOut = NoResult
    /\ LET r == SafePath(pIn.ws, pIn.rel) IN
       pOut' = [kind |-> "safepath", ok |-> r.ok, err |-> r.err, path |-> r.path]
    /\ UNCHANGED <<pIn, fsVars, hubVars, watchVars, mgrVars>>

CallResolveForOp ==
    /\ pOut = NoResult
    /\ LET r == ResolveForOp(pIn.ws, pIn.rel) IN
       pOut' = [kind |-> "op", ok |-> r.kind = "OK", err |-> r.kind, path |-> r.path]
    /\ UNCHANGED <<pIn, fsVars, hubVars, watchVars, mgrVars>>

NextPath == CallSafePath \/ CallResolveForOp

SpecPath == InitPath /\ [][NextPath]_vars

\* The segments of abs start with the segments of dir: abs is dir or below it.
InsideBySegments(abs, dir) ==
    /\ Len(abs) >= Len(dir)
    /\ SubSeq(abs, 1, Len(dir)) = dir

\* C1: for an existing workspace w and a relative path p whose lexical
\* resolution lies outside <root>/<w>, by path segments, SafePath fails with
\* the out-of-bounds error; it never returns a path outside <root>/<w>.
CounterC1 ==
    LET workspaceRoot == Join(rootPath, pIn.ws)
        resolved == Join(workspaceRoot, pIn.rel)
    IN  ( /\ pOut.kind = "safepath"
          /\ StatExists(workspaceRoot)
          /\ ~IsAbs(pIn.rel)
          /\ ~InsideBySegments(resolved, workspaceRoot) )
        => /\ ~pOut.ok
           /\ pOut.err = "path escapes workspace boundaries"

(***************************************************************************)
(* Spec: the server in HTTP mode after workspace "w" was created (its      *)
(* directory, its repository, the placeholder file, the initial commit).   *)
(* Two request tasks serve up to MaxOps calls; one client reads /events.   *)
(***************************************************************************)
CreatedDisk ==
    [InitDisk EXCEPT ![workspaceW \o <<SegGit>>] = Directory,
                     ![workspaceW \o <<SegKeep>>] = File(<<>>)]

\* ... and after a first file was written to it.
WrittenDisk == [CreatedDisk EXCEPT ![workspaceW \o <<SegA>>] = File(ContentX)]

\* The file the write and edit calls name.
ReqPath == <<SegA>>

\* What a write call sends: the first content again, or a new one.
Contents == {ContentX, ContentZ}

TheEdit == [old |-> ContentX, new |-> ContentY]

\* The preconditions a client sends: none, the etag of the first content,
\* or the workspace head it read at the start.
PreInputs ==
    {[etag |-> NoEtag, head |-> 0], [etag |-> Etag(ContentX), head |-> 0],
     [etag |-> NoEtag, head |-> 2]}

\* The preconditions and the dryRun flag of an edit call.
EditInputs ==
    {[pre |-> pre, dryRun |-> FALSE] : pre \in PreInputs}
        \cup {[pre |-> [etag |-> NoEtag, head |-> 0], dryRun |-> TRUE]}

\* One client has subscribed to the workspace's events.
ConnectedHub ==
    /\ hws = [w \in HubWS |->
                IF w = "w" THEN [NewWS EXCEPT !.subs = {[id |-> 1, ch |-> "s1"]}, !.nextSubID = 2]
                ELSE NoWS]
    /\ closed = FALSE
    /\ chans = [s \in SubTasks |->
                  IF s = "s1" THEN [made |-> TRUE, q |-> <<>>, cap |-> SSEBuf, closed |-> FALSE]
                  ELSE NoChan]
    /\ pubs = [p \in Callers |-> IdlePub]
    /\ subT = [s \in SubTasks |->
                 IF s = "s1" THEN [IdleSub EXCEPT !.pc = "subscribed", !.ws = "w", !.id = 1]
                 ELSE IdleSub]
    /\ published = [w \in HubWS |-> <<>>]
    /\ received = [s \in SubTasks |-> <<>>]
    /\ nPub = 0
    /\ panicked = FALSE

Init ==
    /\ IdlePath
    /\ IdleWatch
    /\ IdleMgr
    /\ ConnectedHub
    /\ disk = WrittenDisk
    /\ head = 2
    /\ commits = <<[tree |-> Tree(CreatedDisk), opNo |-> 0],
                   [tree |-> Tree(WrittenDisk), opNo |-> 0]>>
    /\ req = [r \in ReqSlots |-> IdleReq]
    /\ nOps = 0

Next ==
    \/ \E r \in ReqSlots, content \in Contents, pre \in PreInputs :
          StartWrite(r, ReqPath, content, pre.etag, pre.head)
    \/ \E r \in ReqSlots, in \in EditInputs :
          StartEdit(r, ReqPath, TheEdit, in.pre.etag, in.pre.head, in.dryRun)
    \/ \E r \in ReqSlots : StartDelete(r, ReqPath)
    \/ \E r \in ReqSlots : StartMove(r, <<SegA>>, <<SegB>>)
    \/ \E r \in ReqSlots : StartMkdir(r, <<SegD>>)
    \/ \E r \in ReqSlots : CheckHead(r)
    \/ \E r \in ReqSlots : WriteBytes(r)
    \/ \E r \in ReqSlots, fails \in BOOLEAN : CommitStep(r, fails)
    \/ \E r \in ReqSlots : ReqPublish(r)
    \/ \E r \in ReqSlots : HubPubLock(r)
    \/ \E r \in ReqSlots : HubPubSend1(r, "s1")
    \/ \E r \in ReqSlots : HubPubDrain(r)
    \/ \E r \in ReqSlots : HubPubSend2(r)
    \/ HubRecv("s1")

Spec == Init /\ [][Next]_vars

(***************************************************************************)
(* SpecOps: one client calls the file operations one after the other, on   *)
(* plain paths and on paths with a protected segment, and lists, searches  *)
(* and walks the workspace.                                                *)
(***************************************************************************)
\* a, d, .git, d/.gitkeep, .git/a, .git/../a (which is a) and the workspace
\* root.
OpPaths ==
    {<<SegA>>, <<SegD>>, <<SegGit>>, <<SegD, SegKeep>>, <<SegGit, SegA>>,
     <<SegGit, DotDot, SegA>>, <<Dot>>}

\* The destinations of a move: b and .gitkeep.
MoveTargets == {<<SegB>>, <<SegKeep>>, <<SegA>>}

\* The start directories of a listing: the workspace root, d and .git.
StartDirs == {<<Dot>>, <<SegD>>, <<SegGit>>}

\* The exclude-pattern lists: none, .git, a.
ExcludeInputs == {{}, {SegGit}, {SegA}}

\* The search patterns: every name, .gitkeep, a.
PatternInputs == {Star, SegKeep, SegA}

NextOps ==
    \/ \E path \in OpPaths : StartWrite("r1", path, ContentZ, NoEtag, 0)
    \/ \E path \in OpPaths : StartEdit("r1", path, TheEdit, NoEtag, 0, FALSE)
    \/ \E path \in OpPaths : StartDelete("r1", path)
    \/ \E source \in OpPaths, destination \in MoveTargets : StartMove("r1", source, destination)
    \/ \E path \in OpPaths : StartMkdir("r1", path)
    \/ \E path \in OpPaths : StartRead("r1", path)
    \/ \E path \in OpPaths : StartInfo("r1", path)
    \/ \E path \in StartDirs : StartList("r1", path)
    \/ \E path \in StartDirs : StartListSizes("r1", path)
    \/ \E path \in StartDirs, pattern \in PatternInputs, ex \in ExcludeInputs :
          StartSearch("r1", path, pattern, ex)
    \/ \E path \in StartDirs, ex \in ExcludeInputs : StartTree("r1", path, ex)
    \/ CheckHead("r1")
    \/ WriteBytes("r1")
    \/ \E fails \in BOOLEAN : CommitStep("r1", fails)
    \/ ReqPublish("r1")
    \/ HubPubLock("r1")
    \/ HubPubSend1("r1", "s1")
    \/ HubPubDrain("r1")
    \/ HubPubSend2("r1")
    \/ HubRecv("s1")

SpecOps == Init /\ [][NextOps]_vars

(***************************************************************************)
(* SpecFault: one client calls the mutating operations one after the       *)
(* other, and a commit may fail for a reason of the repository.            *)
(***************************************************************************)
NextFault ==
    \/ \E path \in OpPaths : StartWrite("r1", path, ContentZ, NoEtag, 0)
    \/ \E path \in OpPaths : StartEdit("r1", path, TheEdit, NoEtag, 0, FALSE)
    \/ \E path \in OpPaths : StartDelete("r1", path)
    \/ \E source \in OpPaths, destination \in MoveTargets : StartMove("r1", source, destination)
    \/ \E path \in OpPaths : StartMkdir("r1", path)
    \/ CheckHead("r1")
    \/ WriteBytes("r1")
    \/ \E fails \in BOOLEAN : CommitStep("r1", fails)
    \/ CommitFault("r1")
    \/ ReqPublish("r1")
    \/ HubPubLock("r1")
    \/ HubPubSend1("r1", "s1")
    \/ HubPubDrain("r1")
    \/ HubPubSend2("r1")
    \/ HubRecv("s1")

SpecFault == Init /\ [][NextFault]_vars

(***************************************************************************)
(* SpecWatch: the watcher on workspace "w" after its creation, fed with    *)
(* Create and Write notifications for one file; the clock runs freely.     *)
(* SpecWatchPrompt: the watcher with goroutines that are never late, fed   *)
(* also with Remove notifications and with notifications for the           *)
(* workspace directory.                                                    *)
(***************************************************************************)
WatchedFile == workspaceW \o <<SegA>>

InitWatch ==
    /\ IdlePath
    /\ HubInit
    /\ StartedWatch
    /\ IdleMgr
    /\ disk = CreatedDisk
    /\ head = 1
    /\ commits = <<[tree |-> Tree(CreatedDisk), opNo |-> 0]>>
    /\ req = [r \in ReqSlots |-> IdleReq]
    /\ nOps = 0

NextWatch ==
    \/ ExtCreate(WatchedFile)
    \/ ExtWrite(WatchedFile)
    \/ Consume
    \/ SweepBegin
    \/ SweepLock
    \/ \E k \in WatchKeys : SweepFlush(k)
    \/ HubPubLock(WatchTask)
    \/ Tick

SpecWatch == InitWatch /\ [][NextWatch]_vars

NextWatchPrompt ==
    \/ ExtCreate(WatchedFile)
    \/ ExtWrite(WatchedFile)
    \/ ExtRemove(WatchedFile)
    \/ ExtChmodDir(workspaceW)
    \/ Consume
    \/ SweepBegin
    \/ SweepLock
    \/ \E k \in WatchKeys : SweepFlush(k)
    \/ HubPubLock(WatchTask)
    \/ TickPrompt

SpecWatchPrompt == InitWatch /\ [][NextWatchPrompt]_vars

(***************************************************************************)
(* SpecNames: the watcher with notifications that name the root, the       *)
(* workspace directories, the protected entries of a workspace and a file  *)
(* inside its repository.                                                  *)
(***************************************************************************)
\* The entries of the workspace directory that are created.
EntryNames == {workspaceW \o <<SegA>>, workspaceW \o <<SegKeep>>}

\* The directories whose mode changes.
DirNames == {rootPath, workspaceW, workspaceWX, workspaceW \o <<SegGit>>}

RepoFile == workspaceW \o <<SegGit, SegA>>

BurstEnd == 2       \* the changes of SpecNames are made before this time

\* The changes come as one burst.
BurstCreate(name) == clock < BurstEnd /\ ExtCreate(name)

BurstChmodDir(name) == clock < BurstEnd /\ ExtChmodDir(name)

BurstRepoWrite(name) == clock < BurstEnd /\ ExtRepoWrite(name)

NextNames ==
    \/ \E name \in EntryNames : BurstCreate(name)
    \/ \E name \in DirNames : BurstChmodDir(name)
    \/ BurstRepoWrite(RepoFile)
    \/ Consume
    \/ SweepBegin
    \/ SweepLock
    \/ \E k \in WatchKeys : SweepFlush(k)
    \/ HubPubLock(WatchTask)
    \/ TickPrompt

SpecNames == InitWatch /\ [][NextNames]_vars

(***************************************************************************)
(* SpecSync: the server in HTTP mode with its watcher running.  One client *)
(* writes and deletes a file of workspace "w" through the API; nothing     *)
(* else touches the disk.                                                  *)
(***************************************************************************)
NextSync ==
    \/ \E content \in Contents : StartWrite("r1", ReqPath, content, NoEtag, 0)
    \/ StartDelete("r1", ReqPath)
    \/ CheckHead("r1")
    \/ WriteBytes("r1")
    \/ \E fails \in BOOLEAN : CommitStep("r1", fails)
    \/ ReqPublish("r1")
    \/ HubPubLock("r1")
    \/ Consume
    \/ SweepBegin
    \/ SweepLock
    \/ \E k \in WatchKeys : SweepFlush(k)
    \/ HubPubLock(WatchTask)
    \/ TickPrompt

SpecSync == InitWatch /\ [][NextSync]_vars

(***************************************************************************)
(* SpecCreate: a client creates workspaces below an empty root.            *)
(***************************************************************************)
MyTestWorkspace ==
    <<"M", "y", " ", "T", "e", "s", "t", " ", "W", "o", "r", "k", "s", "p", "a", "c", "e">>

\* A name of more valid characters than a slug may have.
LongName == [i \in 1..(maxSlugLength + 1) |-> "a"]

\* A name that differs from the first and has its slug, a name with an
\* empty slug, and a long name.
NameInputs ==
    {MyTestWorkspace,
     <<"m", "y", " ", "-", "t", "e", "s", "t", "-", "-", "w", "o", "r", "k", "s", "p", "a", "c", "e", "!">>,
     <<"-", " ", "!">>,
     LongName}

InitCreate == IdlePath /\ HubInit /\ IdleFs /\ IdleWatch /\ IdleMgr

NextCreate ==
    \/ \E name \in NameInputs : Create(name)
    \/ Second

SpecCreate == InitCreate /\ [][NextCreate]_vars

(***************************************************************************)
(* Properties of the file operations, checked under Spec.                  *)
(***************************************************************************)
\* The task r takes a call in this step.
Arrives(r) == nOps' = nOps + 1 /\ req'[r].opNo = nOps + 1

\* The call served by r compares the workspace head in this step.
ChecksHead(r) == req[r].pc = "head" /\ req'[r].pc # "head"

\* The call served by r has returned with a commit.
Committed(r) == Returned(r) /\ req[r].resp.err = "" /\ req[r].resp.commit # 0

\* The call served by r is a write or an edit that is to change the file
\* and sends a precondition read at the start: the etag of the first
\* content or the head after the first write.
Guarded(r) ==
    /\ Returned(r)
    /\ req[r].op \in {"write", "edit"}
    /\ ~req[r].dryRun
    /\ req[r].ifEtag = Etag(ContentX) \/ req[r].ifHead = 2

NothingChanged == UNCHANGED <<disk, head, commits, hubVars>>

\* C2 as stated: of two guarded calls for the same file with different new
\* contents that are served concurrently, at most one succeeds.
CounterC2 ==
    \A r1, r2 \in ReqSlots :
        ( /\ r1 # r2
          /\ Guarded(r1) /\ Guarded(r2)
          /\ req[r1].path = req[r2].path
          /\ req[r1].currEtag = Etag(ContentX) /\ req[r2].currEtag = Etag(ContentX)
          /\ req[r1].content # req[r2].content
          /\ req[r1].opNo \notin req[r2].before
          /\ req[r2].opNo \notin req[r1].before )
        => ~(Committed(r1) /\ Committed(r2))

\* C2: of two guarded calls for the same file with different new contents
\* that are served one after the other (the first finds the file with the
\* etag its client read and returns with its commit, the second arrives
\* next, after that, and no other call is being served meanwhile), the
\* second fails with CONFLICT.
TheoremC2 ==
    \A r1, r2 \in ReqSlots :
        ( /\ r1 # r2
          /\ Guarded(r1) /\ Guarded(r2)
          /\ req[r1].path = req[r2].path
          /\ req[r1].content # req[r2].content
          /\ req[r1].currEtag = Etag(ContentX)
          /\ Committed(r1)
          /\ req[r1].quiet /\ req[r2].quiet
          /\ req[r2].opNo = req[r1].opNo + 1
          /\ req[r1].opNo \in req[r2].before )
        => req[r2].resp.err = "CONFLICT"

WitnessC2 ==
    /\ Guarded("r1") /\ Guarded("r2")
    /\ Committed("r1")
    /\ req["r1"].currEtag = Etag(ContentX)
    /\ req["r1"].op = "edit" /\ req["r2"].op = "write"
    /\ req["r1"].content # req["r2"].content
    /\ req["r1"].quiet /\ req["r2"].quiet
    /\ req["r2"].opNo = req["r1"].opNo + 1
    /\ req["r1"].opNo \in req["r2"].before
    /\ req["r2"].ifEtag = Etag(ContentX)
    /\ req["r2"].resp.err = "CONFLICT"

\* C3: a write or edit call for an existing file whose ifMatchFileEtag is
\* not empty and is not the hash of the file's bytes returns CONFLICT at
\* once, and the disk, the head, the commits and the hub are as before.
TheoremC3 ==
    [][\A r \in ReqSlots :
         LET abs == workspaceW \o req'[r].path IN
         ( /\ Arrives(r)
           /\ req'[r].op \in {"write", "edit"}
           /\ disk[abs].kind = "file"
           /\ req'[r].ifEtag # NoEtag
           /\ req'[r].ifEtag # Etag(disk[abs].data) )
         => /\ req'[r].pc = "done"
            /\ req'[r].resp.err = "CONFLICT"
            /\ NothingChanged]_vars

\* The first content was overwritten, and a write with the first etag was
\* rejected.
WitnessC3 ==
    \E r \in ReqSlots :
        /\ req[r].pc = "done"
        /\ req[r].op = "write"
        /\ req[r].ifEtag = Etag(ContentX)
        /\ req[r].orig \in {ContentY, ContentZ}
        /\ req[r].resp.err = "CONFLICT"
        /\ Len(commits) > 2

\* A write or edit call with a workspace head that a commit had replaced
\* before the call arrived.
StaleHead(r) ==
    /\ Returned(r)
    /\ req[r].op \in {"write", "edit"}
    /\ req[r].ifHead # 0
    /\ \E i \in (req[r].ifHead + 1)..Len(commits) : commits[i].opNo \in req[r].before

\* C4 as stated: every write or edit call with a replaced workspace head
\* fails with CONFLICT.
CounterC4 ==
    \A r \in ReqSlots : StaleHead(r) => req[r].resp.err = "CONFLICT"

\* C4: a write call, or an edit call that could read its file, with a
\* replaced workspace head fails with CONFLICT; and the step that finds
\* ifMatchWorkspaceHead different from HEAD returns CONFLICT and leaves the
\* disk, the head, the commits and the hub as they were.
TheoremC4 ==
    /\ [](\A r \in ReqSlots :
            (StaleHead(r) /\ (req[r].op = "edit" => req[r].overwritten))
                => req[r].resp.err = "CONFLICT")
    /\ [][\A r \in ReqSlots :
            (ChecksHead(r) /\ req[r].ifHead # 0 /\ req[r].ifHead # head)
                => /\ req'[r].pc = "done"
                   /\ req'[r].resp.err = "CONFLICT"
                   /\ NothingChanged]_vars

\* The commit in between was a create-directory: it touched another file.
WitnessC4 ==
    \E r, o \in ReqSlots :
        /\ StaleHead(r)
        /\ req[r].op = "write"
        /\ req[r].content = ContentZ
        /\ req[r].resp.err = "CONFLICT"
        /\ req[o].op = "mkdir" /\ Committed(o)
        /\ req[o].opNo \in req[r].before
        /\ disk[req[r].abs] = File(ContentX)

\* C5: when a write call whose content is the bytes it read from the file,
\* or an edit call whose text comes out as the text it read, reaches the
\* head check with no ifMatchWorkspaceHead or the current one, it returns
\* zero bytes written and no commit, and the disk, the head, the commits
\* and the hub (sequence counter, ring, subscriber queues) are as before.
TheoremC5 ==
    [][\A r \in ReqSlots :
         ( /\ ChecksHead(r)
           /\ req[r].ifHead \in {0, head}
           /\ \/ /\ req[r].op = "write"
                 /\ req[r].currEtag # NoEtag
                 /\ req[r].content = req[r].orig
              \/ /\ req[r].op = "edit"
                 /\ Edited(req[r].orig, req[r].edit) = req[r].orig )
         => /\ req'[r].pc = "done"
            /\ req'[r].resp.err = ""
            /\ req'[r].resp.bytes = 0
            /\ req'[r].resp.commit = 0
            /\ NothingChanged]_vars

WitnessC5 ==
    \E r \in ReqSlots :
        /\ req[r].pc = "done"
        /\ req[r].op = "write"
        /\ req[r].ifEtag = Etag(ContentX)
        /\ req[r].content = ContentX
        /\ req[r].resp.noop
        /\ published["w"] = <<>>

\* The events published to the workspace that carry the commit c.
EventsOf(c) == {i \in 1..Len(published["w"]) : published["w"][i].commit = c}

\* The commits made by the call number n.
CommitsOf(n) == {i \in 1..Len(commits) : commits[i].opNo = n}

\* C6: a call that has returned with success after changing what the
\* workspace shows has made exactly one commit, returns its hash, and
\* exactly one published event carries that hash.
TheoremC6 ==
    \A r \in ReqSlots :
        (Returned(r) /\ req[r].resp.err = "" /\ req[r].changed)
            => /\ req[r].resp.commit # 0
               /\ CommitsOf(req[r].opNo) = {req[r].resp.commit}
               /\ Cardinality(EventsOf(req[r].resp.commit)) = 1

WitnessC6 ==
    /\ \A r \in ReqSlots : Returned(r) /\ req[r].resp.err = "" /\ req[r].changed
    /\ req["r1"].op = "move"
    /\ req["r2"].op = "mkdir"

(***************************************************************************)
(* Properties of the hub, checked under SpecHub.                           *)
(***************************************************************************)
StrictlyIncreasing(ids) == \A i \in 1..Len(ids) - 1 : ids[i] < ids[i + 1]

\* The last n elements of a sequence.
LastN(q, n) == SubSeq(q, Len(q) - n + 1, Len(q))

\* C7: in every hub state and for every workspace, the ring read from oldest
\* to newest holds consecutive, strictly increasing IDs ending at the
\* workspace's sequence counter; the first event published to a workspace has
\* ID 1 and no two events published to it share an ID, with concurrent
\* publishers.
TheoremC7 ==
    \A w \in HubWS :
        LET st == hws[w]
            L  == Logical(st)
            H  == published[w]
        IN  /\ \A i \in 1..Len(L) : L[i].id = st.seq - Len(L) + i
            /\ Len(H) > 0 => H[1].id = 1
            /\ \A i, j \in 1..Len(H) : i # j => H[i].id # H[j].id
            /\ StrictlyIncreasing(IDs(H))

\* C7's case: both publisher tasks have published to the workspace and the
\* ring has wrapped around.
WitnessC7 ==
    /\ hws["w"].seq > RingCap
    /\ hws["w"].ringStart # 0
    /\ \A p \in PubTasks : \E i \in 1..Len(published["w"]) : published["w"][i].actor = p

\* C8: after k publishes to a workspace the ring holds exactly min(k, N)
\* events, the min(k, N) most recently published ones in publication order
\* (so a publish into a full ring removes the oldest event and nothing else),
\* and a subscriber attaching with sinceID = 0 is offered at most N events.
TheoremC8 ==
    /\ \A w \in HubWS :
          LET st == hws[w]
              k  == Len(published[w])
          IN  /\ st.seq = k
              /\ Len(st.ring) = Min(k, RingCap)
              /\ Logical(st) = LastN(published[w], Min(k, RingCap))
    /\ \A s \in SubTasks :
          (subT[s].pc = "subscribed" /\ subT[s].since = 0)
              => Len(subT[s].snapshot) <= RingCap

\* C8's case: more events than the ring holds were published, and a
\* subscriber attached afterwards with sinceID = 0 and was offered a full ring.
WitnessC8 ==
    /\ Len(published["w"]) > RingCap
    /\ \E s \in SubTasks :
          /\ subT[s].pc = "subscribed" /\ subT[s].since = 0
          /\ subT[s].atSeq > RingCap
          /\ Len(subT[s].snapshot) = RingCap

\* C9: the event IDs a subscriber receives from its channel are strictly
\* increasing, in every interleaving of Subscribe, its replay task, the
\* publishers and the reader.
CounterC9 == \A s \in SubTasks : StrictlyIncreasing(received[s])

\* The events that were in the ring when the workspace's counter stood at n
\* and have an ID above sinceID, in ID order.
InRingAbove(w, n, sinceID) ==
    SelectSeq(published[w],
              LAMBDA e : e.id <= n /\ e.id > n - RingCap /\ e.id > sinceID)

\* C10: Subscribe selects for replay exactly the events in the ring at
\* subscribe time with ID > sinceID, in ascending ID order, wrapped ring or
\* not; when the buffer holds the whole replay, nothing is published while
\* the replay runs and the subscription stays open, the subscriber gets all
\* of them.
TheoremC10 ==
    \A s \in SubTasks :
        (subT[s].pc = "subscribed" /\ ~subT[s].noop) =>
            LET w == subT[s].ws IN
            /\ subT[s].snapshot = InRingAbove(w, subT[s].atSeq, subT[s].since)
            /\ ( /\ chans[s].cap >= Len(subT[s].snapshot)
                 /\ hws[w].seq = subT[s].atSeq
                 /\ subT[s].replay = <<>>
                 /\ ~chans[s].closed
                 /\ ~panicked )
                 => received[s] \o IDs(chans[s].q) = IDs(subT[s].snapshot)

\* C10's case: a subscriber attached to a wrapped ring with a sinceID that
\* cuts into the ring, and has received the whole replay.
WitnessC10 ==
    \E s \in SubTasks :
        /\ subT[s].pc = "subscribed" /\ ~subT[s].noop
        /\ subT[s].atSeq > RingCap
        /\ hws[subT[s].ws].seq = subT[s].atSeq
        /\ subT[s].since > subT[s].atSeq - RingCap
        /\ Len(subT[s].snapshot) >= 1
        /\ subT[s].replay = <<>>
        /\ received[s] = IDs(subT[s].snapshot)

\* C12: once a subscription's channel has been closed by its unsubscribe
\* function or by Close, the hub sends nothing more on it: neither a Publish
\* that took its snapshot of the subscribers before, nor the subscription's
\* replay task.  A send on a closed channel crashes the process.
CounterC12 == ~panicked

(***************************************************************************)
(* Properties of unsubscribe and Close, checked under SpecSubs.            *)
(***************************************************************************)
\* The unsubscribe function of subscription s is called in this step.
UnsubCalled(s) == subT'[s].unsubs = subT[s].unsubs + 1

\* C13: calling a subscription's unsubscribe function any number of times,
\* before or after Close, removes the subscription and closes its channel
\* exactly once: the call that finds it registered removes it and closes its
\* open channel, every other call changes nothing in the hub, no channel is
\* closed twice, and the other subscriptions stay as they are, registered and
\* open.
TheoremC13 ==
    [][\A s \in SubTasks : UnsubCalled(s) =>
          /\ ~panicked'
          /\ s \notin registeredSubs'
          /\ chans'[s].closed
          /\ s \in registeredSubs =>
                /\ ~chans[s].closed
                /\ chans'[s] = [chans[s] EXCEPT !.closed = TRUE]
                /\ \A w \in HubWS : hws'[w] = [hws[w] EXCEPT !.subs = {x \in @ : x.ch # s}]
          /\ s \notin registeredSubs => UNCHANGED <<hws, chans, closed>>
          /\ \A o \in SubTasks \ {s} :
                /\ chans'[o] = chans[o]
                /\ o \in registeredSubs' <=> o \in registeredSubs
      ]_vars

\* C13's case: two subscriptions of one workspace; the unsubscribe function
\* of the first was called twice, the second is still registered and open.
WitnessC13 ==
    /\ subT["s1"].pc = "subscribed" /\ subT["s2"].pc = "subscribed"
    /\ subT["s1"].ws = subT["s2"].ws
    /\ ~subT["s1"].noop
    /\ subT["s1"].unsubs >= 2
    /\ chans["s1"].closed
    /\ "s2" \in registeredSubs /\ ~chans["s2"].closed
    /\ ~closed /\ ~panicked

\* C14: after Close no subscriber is registered in any workspace and every
\* subscription's channel is closed; from then on the hub stays closed (a
\* second Close changes nothing), no event is put on any channel, a Publish
\* serves no subscriber, and a Subscribe that returns hands out a closed
\* channel and registers nothing.
TheoremC14 ==
    /\ [](closed =>
            /\ registeredSubs = {}
            /\ \A s \in SubTasks : subT[s].pc = "subscribed" => chans[s].closed)
    /\ [][closed =>
            /\ closed'
            /\ registeredSubs' = {}
            /\ \A s \in SubTasks :
                  /\ Len(chans'[s].q) <= Len(chans[s].q)
                  /\ chans[s].closed => chans'[s].closed
                  /\ (subT[s].pc = "lock" /\ subT'[s].pc = "subscribed")
                        => chans'[s].closed /\ subT'[s].noop
            /\ \A p \in PubTasks :
                  pubs[p].pc \in {"idle", "lock"} => pubs'[p].pc \in {"idle", pubs[p].pc}
      ]_vars

\* C14's case: the hub was closed with a subscriber registered; afterwards a
\* Publish was called and returned, and a Subscribe returned a closed channel.
WitnessC14 ==
    /\ closed /\ ~panicked
    /\ subT["s1"].pc = "subscribed" /\ ~subT["s1"].noop /\ subT["s1"].unsubs = 0
    /\ chans["s1"].closed
    /\ subT["s2"].pc = "subscribed" /\ subT["s2"].noop /\ chans["s2"].closed
    /\ pubs["p1"].pc = "idle"
    /\ nPub > Len(published["w"]) + Len(published["v"])

(***************************************************************************)
(* Properties of the fanout, checked under SpecFanout.                     *)
(***************************************************************************)
\* The fanout of task p attempts its send to subscriber s in this step.
SendsTo(p, s) ==
    /\ pubs[p].pc = "fanout" /\ pubs[p].phase = "send1"
    /\ s \in pubs[p].todo
    /\ pubs'[p] # pubs[p]
    /\ IF pubs'[p].phase = "drain" THEN pubs'[p].cur = s
       ELSE pubs'[p].pc = "idle" \/ s \notin pubs'[p].todo

\* C11: Publish never blocks on subscribers.  With a subscriber whose
\* buffer is full and is never read, every Publish call that was entered
\* returns; in its locked section the event gets the next ID and becomes the
\* newest event of the ring; and each subscriber of the snapshot that has
\* room in its buffer when its turn comes gets the event.
TheoremC11 ==
    /\ \A p \in PubTasks : (pubs[p].pc # "idle") ~> (pubs[p].pc = "idle")
    /\ [][\A p \in PubTasks :
            /\ (pubs[p].pc = "lock" /\ pubs'[p].pc # "lock") =>
                  LET w == pubs[p].ws
                      L == Logical(hws'[w])
                  IN  /\ hws'[w].seq = hws[w].seq + 1
                      /\ Len(L) > 0
                      /\ L[Len(L)].id = hws'[w].seq
                      /\ L[Len(L)].actor = p
            /\ \A s \in SubTasks :
                  (SendsTo(p, s) /\ Len(chans[s].q) < chans[s].cap) =>
                      /\ chans'[s].q = Append(chans[s].q, pubs[p].evt)
                      /\ pubs'[p].phase # "drain"
      ]_vars

\* C11's case: both subscribers were registered before the first event;
\* the first one's buffer is full and nothing was ever read from it; three
\* Publish calls, of both tasks, have returned; the second subscriber has
\* received all three events.
WitnessC11 ==
    /\ \A s \in SubTasks : subT[s].pc = "subscribed" /\ subT[s].atSeq = 0
    /\ Len(chans["s1"].q) = chans["s1"].cap
    /\ received["s1"] = <<>>
    /\ hws["w"].seq = 3
    /\ \A p \in PubTasks : pubs[p].pc = "idle"
    /\ \A p \in PubTasks : \E i \in 1..Len(published["w"]) : published["w"][i].actor = p
    /\ received["s2"] = <<1, 2, 3>>

(***************************************************************************)
(* Properties of the protected names, checked under SpecOps.               *)
(***************************************************************************)
\* Some segment of the lexically cleaned path is .git or .gitkeep.
NamesProtected(rel) ==
    \E i \in 1..Len(Clean(rel)) : Clean(rel)[i] \in {SegGit, SegKeep}

\* C15: a read, write, edit, delete, move, create-directory or get-info call
\* on a path of which some segment, after lexical cleaning, is .git or
\* .gitkeep (for a move: its source or its destination) returns NOT_FOUND at
\* once, and the files, the workspace head, the commits and the event stream
\* are unchanged.
TheoremC15 ==
    [][\A r \in ReqSlots :
          ( /\ Arrives(r)
            /\ req'[r].op \in {"read", "write", "edit", "delete", "move", "mkdir", "info"}
            /\ NamesProtected(req'[r].path)
                  \/ (req'[r].op = "move" /\ NamesProtected(req'[r].dst)) )
          => /\ req'[r].pc = "done"
             /\ req'[r].resp.err = "NOT_FOUND"
             /\ NothingChanged
      ]_vars

\* C15's case: after a first call has committed, a delete of .git was
\* refused with NOT_FOUND and the repository directory is still there.
WitnessC15 ==
    /\ head = 3
    /\ req["r1"].op = "delete" /\ req["r1"].path = <<SegGit>>
    /\ req["r1"].pc = "done" /\ req["r1"].resp.err = "NOT_FOUND"
    /\ disk[workspaceW \o <<SegGit>>].kind = "dir"

\* C20: a create-directory call for a directory that already exists, with
\* its placeholder file present, so that the call changes nothing on disk,
\* returns created = false with no error and adds no commit.
CounterC20 ==
    \A r \in ReqSlots :
        ( /\ Returned(r)
          /\ req[r].op = "mkdir"
          /\ req[r].isDir
          /\ ~req[r].created
          /\ ~req[r].wrote )
        => /\ req[r].resp.err = ""
           /\ \A i \in 1..Len(commits) : commits[i].opNo # req[r].opNo

\* C16: the results of list-directory, list-directory-with-sizes,
\* search-files and directory-tree contain no entry named .git or .gitkeep,
\* at any depth, for every start directory and every list of exclude
\* patterns, the empty one included.
CounterC16 ==
    \A r \in ReqSlots :
        (Returned(r) /\ req[r].op \in {"list", "list_sizes", "search", "tree"}) =>
            \A e \in req[r].listing : \A i \in 1..Len(e) : ~isProtectedName(e[i])

(***************************************************************************)
(* The watcher's debounce.                                                 *)
(***************************************************************************)
EventsFor(k) ==
    LET log == published[HubName(k.wsID)]
    IN  {i \in 1..Len(log) : log[i].type = k.typ /\ log[i].path = k.path}

\* The events the watcher has published for a key.
PublishedFor(k) ==
    Cardinality({i \in EventsFor(k) : published[HubName(k.wsID)][i].actor = "fswatch"})

\* The sweeper has taken the key and its Publish has not got its ID yet.
InFlight(k) ==
    \/ k \in sweep.toSend
    \/ /\ pubs[WatchTask].pc = "lock"
       /\ pubs[WatchTask].evt.type = k.typ
       /\ pubs[WatchTask].evt.path = k.path

Count(b) == IF b THEN 1 ELSE 0

\* Some burst of the key has ended at least a window ago.
QuietFor(k) ==
    \E i \in 1..Len(stamps[k]) :
       /\ stamps[k][i] + DebounceWindow <= clock
       /\ i < Len(stamps[k]) => stamps[k][i + 1] >= stamps[k][i] + DebounceWindow

\* The stamps of a key that no take covers yet.
Uncovered(k) ==
    Len(stamps[k]) - (IF takes[k] = <<>> THEN 0 ELSE takes[k][Len(takes[k])])

\* C17: notifications of one key that follow each other by less than the
\* debounce window give one published event.  The sweeper never takes the
\* key between two such notifications; every take covers at least one
\* notification and gives one event, published or being published; a
\* notification that no take covers keeps the key in the map.  The sweeper
\* takes a key only when its last notification is at least a window old,
\* and an event is published for a key only after a window without a
\* notification for it.
TheoremC17 ==
    /\ [](\A k \in WatchKeys :
             /\ \A i \in 1..(Len(stamps[k]) - 1) :
                   stamps[k][i + 1] - stamps[k][i] < DebounceWindow =>
                      \A j \in 1..Len(takes[k]) : takes[k][j] # i
             /\ \A j \in 1..Len(takes[k]) :
                   takes[k][j] > (IF j = 1 THEN 0 ELSE takes[k][j - 1])
             /\ PublishedFor(k) + Count(InFlight(k)) = Len(takes[k])
             /\ Uncovered(k) >= 0
             /\ Uncovered(k) > 0 <=> debounced[k] # NoTime)
    /\ [][\A k \in WatchKeys :
             /\ (debounced[k] # NoTime /\ debounced'[k] = NoTime) =>
                   clock - stamps[k][Len(stamps[k])] >= DebounceWindow
             /\ PublishedFor(k)' > PublishedFor(k) =>
                   PublishedFor(k)' = PublishedFor(k) + 1 /\ QuietFor(k)]_vars

\* Three notifications of one key, each less than a window after the one
\* before and the last a window after the first, and the one
\* event they gave.
WitnessC17 ==
    \E k \in WatchKeys :
       /\ Len(stamps[k]) = 3
       /\ stamps[k][3] - stamps[k][1] >= DebounceWindow
       /\ \A i \in 1..2 : stamps[k][i + 1] - stamps[k][i] < DebounceWindow
       /\ takes[k] = <<3>>
       /\ PublishedFor(k) = 1

CreatedKey == [wsID |-> SegW, path |-> <<SegA>>, typ |-> "file.created"]

\* The time of the last notification stamped for the path of a key.
LastNote(path) ==
    LET ts == UNION {Range(stamps[k]) : k \in {x \in WatchKeys : x.path = path}}
    IN  CHOOSE t \in ts : \A u \in ts : u <= t

\* C18: with goroutines that are never late, a file created once from
\* outside gets one file.created event and never a second one; the event
\* carries the watcher's actor kind ("fswatch" in the code), and it is
\* published before a debounce window and a sweep period have passed since
\* the last notification for the path.
TheoremC18 ==
    Len(stamps[CreatedKey]) = 1 =>
       /\ Cardinality(EventsFor(CreatedKey)) <= 1
       /\ PublishedFor(CreatedKey) = Cardinality(EventsFor(CreatedKey))
       /\ clock >= LastNote(CreatedKey.path) + DebounceWindow + SweepPeriod =>
             PublishedFor(CreatedKey) = 1

\* The file was created between two ticks and written right after; the
\* deadline has passed and the event is there.
WitnessC18 ==
    /\ Len(stamps[CreatedKey]) = 1
    /\ stamps[CreatedKey][1] = 1
    /\ stamps[[CreatedKey EXCEPT !.typ = "file.updated"]] = <<2>>
    /\ clock = 2 + DebounceWindow + SweepPeriod
    /\ PublishedFor(CreatedKey) = 1
    /\ disk[WatchedFile].kind = "file"

(***************************************************************************)
(* The IDs given by Create.                                                *)
(***************************************************************************)
CallSucceeded(i) == calls[i].err = ""

\* C19: every Create that succeeds returns an ID that no earlier successful
\* Create returned, and leaves a directory of that name with a repository;
\* the first Create of "My Test Workspace" succeeds with "my-test-workspace".
TheoremC19 ==
    /\ \A i \in 1..Len(calls) :
          CallSucceeded(i) =>
             /\ \A j \in 1..(i - 1) : CallSucceeded(j) => calls[j].id # calls[i].id
             /\ calls[i].id \in wsDirs
             /\ calls[i].id \in wsRepos
    /\ (calls # <<>> /\ calls[1].name = MyTestWorkspace) =>
          /\ CallSucceeded(1)
          /\ calls[1].id = <<"m", "y", "-", "t", "e", "s", "t", "-", "w", "o", "r", "k",
                             "s", "p", "a", "c", "e">>

\* The same name three times, the first two calls within one second: three
\* workspaces.
WitnessC19 ==
    /\ Len(calls) = 3
    /\ \A i \in 1..3 : calls[i].name = MyTestWorkspace /\ CallSucceeded(i)
    /\ Cardinality(wsRepos) = 3
    /\ sec = 1

(***************************************************************************)
(* The life of a workspace.                                                *)
(***************************************************************************)
\* C21 as stated: whatever the API operations do, the directory of the
\* workspace and its repository stay, and list returns the workspace.
CounterC21 ==
    /\ disk[workspaceW].kind = "dir"
    /\ RepoExists(disk)
    /\ workspaceW \in List(disk)

(***************************************************************************)
(* The error kinds of path resolution.                                     *)
(***************************************************************************)
\* C22 as stated: an operation whose path is not protected reports NOT_FOUND
\* when the workspace directory does not exist, INVALID_INPUT when the
\* cleaned relative path is absolute, and OUT_OF_BOUNDS only when the joined
\* path fails the test against the workspace root.
CounterC22 ==
    LET workspaceRoot == Join(rootPath, pIn.ws)
        cleanedRelativePath == Clean(pIn.rel)
        absPath == Join(workspaceRoot, cleanedRelativePath)
    IN  (pOut.kind = "op" /\ ~isProtectedPath(pIn.rel)) =>
           /\ ~StatExists(workspaceRoot) => pOut.err = "NOT_FOUND"
           /\ (StatExists(workspaceRoot) /\ IsAbs(cleanedRelativePath)) =>
                 pOut.err = "INVALID_INPUT"
           /\ pOut.err = "OUT_OF_BOUNDS" =>
                 /\ StatExists(workspaceRoot)
                 /\ ~IsAbs(cleanedRelativePath)
                 /\ EscapesRoot(absPath, workspaceRoot)

(***************************************************************************)
(* The watcher and the changes made through the API.                       *)
(***************************************************************************)
\* C23 as stated: when every change of the workspace is made through the
\* API, the stream holds one event per committed operation, the one the
\* operation published, and none published by the watcher.
CounterC23 ==
    /\ \A i \in 1..Len(published["w"]) : published["w"][i].actor # "fswatch"
    /\ Len(published["w"]) <= Len(commits) - 1

(***************************************************************************)
(* Delivery to a subscriber that keeps up.                                 *)
(***************************************************************************)
\* An event published after s was registered comes before a replayed one in
\* what s has received.
LiveBeforeReplayed(s) ==
    \E i, j \in 1..Len(received[s]) :
       /\ i < j
       /\ received[s][i] > subT[s].atSeq
       /\ received[s][j] <= subT[s].atSeq

\* C24 as stated: an event published while s is registered is put into the
\* queue of s when its buffer is not full, from where the reader receives
\* it, and s receives it after the replayed events.
CounterC24 ==
    /\ [][\A p \in PubTasks, s \in SubTasks :
            (SendsTo(p, s) /\ ~chans[s].closed /\ Len(chans[s].q) < chans[s].cap) =>
                chans'[s].q = Append(chans[s].q, pubs[p].evt)]_vars
    /\ [](\A s \in SubTasks : ~LiveBeforeReplayed(s))

(***************************************************************************)
(* Replay and live fan-out do not overlap.                                 *)
(***************************************************************************)
\* The IDs of the events put into the channel of s and not dropped from it:
\* those its reader has received and those that wait in the queue.
Handed(s) == received[s] \o [i \in 1..Len(chans[s].q) |-> chans[s].q[i].id]

NoDuplicate(ids) == \A i, j \in 1..Len(ids) : ids[i] = ids[j] => i = j

\* C25: no subscriber is handed an event twice.  Its replay snapshot holds
\* only events published before it was registered, the replay task sends
\* only those, and the live fan-out sends it only events published after.
TheoremC25 ==
    /\ [](\A s \in SubTasks :
             /\ NoDuplicate(Handed(s))
             /\ \A i \in 1..Len(subT[s].snapshot) : subT[s].snapshot[i].id <= subT[s].atSeq)
    /\ [][\A s \in SubTasks :
             Len(chans'[s].q) = Len(chans[s].q) + 1 =>
                LET e == chans'[s].q[Len(chans'[s].q)]
                IN  IF subT'[s].replay # subT[s].replay
                       THEN e.id <= subT[s].atSeq
                       ELSE e.id > subT[s].atSeq]_vars

\* A subscriber that was registered between two Publish calls and has
\* received a replayed event and a live one.
WitnessC25 ==
    \E s \in SubTasks :
       /\ subT[s].pc = "subscribed"
       /\ subT[s].atSeq >= 1
       /\ Len(subT[s].snapshot) >= 1
       /\ Len(received[s]) >= 2
       /\ \E i \in 1..Len(received[s]) : received[s][i] <= subT[s].atSeq
       /\ \E i \in 1..Len(received[s]) : received[s][i] > subT[s].atSeq

(***************************************************************************)
(* The slow subscriber, checked under SpecSlow.                            *)
(***************************************************************************)
\* The fan-out of task p takes an event out of the channel it found full.
Drains(p) == pubs[p].phase = "drain" /\ pubs'[p].phase = "send2"

\* The fan-out of task p retries its send.
Retries(p) == pubs[p].phase = "send2" /\ pubs'[p] # pubs[p]

OthersKept(s) == \A t \in SubTasks \ {s} : chans'[t] = chans[t]

\* C26: when the fan-out finds a subscriber's buffer full, and no other task
\* touches that buffer meanwhile, Publish takes out exactly the oldest queued
\* event and puts the new one at the tail, so the queue stays at capacity.
\* Step by step: the failed send changes no queue and goes on to the drain
\* of that subscriber; the drain of a full queue leaves its tail; the retry
\* on a queue one short of capacity appends the event; and none of the three
\* steps changes the queue of another subscriber.
TheoremC26 ==
    /\ [][\A p \in PubTasks :
             /\ \A s \in SubTasks :
                   (SendsTo(p, s) /\ Len(chans[s].q) = chans[s].cap) =>
                       /\ chans' = chans
                       /\ pubs'[p].phase = "drain" /\ pubs'[p].cur = s
                       /\ pubs'[p].evt = pubs[p].evt
             /\ Drains(p) =>
                   LET s == pubs[p].cur
                   IN  /\ Len(chans[s].q) = chans[s].cap =>
                              chans'[s].q = Tail(chans[s].q)
                       /\ pubs'[p].cur = s /\ pubs'[p].evt = pubs[p].evt
                       /\ OthersKept(s)
             /\ Retries(p) =>
                   LET s == pubs[p].cur
                   IN  /\ Len(chans[s].q) = chans[s].cap - 1 =>
                              /\ chans'[s].q = Append(chans[s].q, pubs[p].evt)
                              /\ Len(chans'[s].q) = chans[s].cap
                       /\ OthersKept(s)]_vars
    /\ [](\A s \in SubTasks : Len(chans[s].q) <= chans[s].cap)

\* Three events published one after the other to a subscriber that reads
\* nothing and has room for two: the first was dropped, the third is last.
WitnessC26 ==
    /\ chans["s1"].cap = 2
    /\ IDs(chans["s1"].q) = <<2, 3>>
    /\ received["s1"] = <<>>
    /\ \A p \in PubTasks : pubs[p].pc = "idle"

(***************************************************************************)
(* The replay into a full buffer, checked under SpecHub.                   *)
(***************************************************************************)
\* The replay of s is over and no other task has touched its channel: its
\* reader has received nothing and nothing was published since it registered.
OnlyReplayed(s) ==
    /\ subT[s].pc = "subscribed" /\ ~subT[s].noop
    /\ ~chans[s].closed
    /\ subT[s].replay = <<>>
    /\ received[s] = <<>>
    /\ Len(published[subT[s].ws]) = subT[s].atSeq

\* C27: the replay handles a full buffer as the live fan-out does (the
\* oldest queued event is dropped, the send retried once), so a replay larger
\* than the buffer leaves the newest replayed events in the queue.
CounterC27 ==
    \A s \in SubTasks :
       (OnlyReplayed(s) /\ Len(subT[s].snapshot) > chans[s].cap) =>
           LET n == Len(subT[s].snapshot)
           IN  chans[s].q = SubSeq(subT[s].snapshot, n - chans[s].cap + 1, n)

(***************************************************************************)
(* The events of the file operations, checked under SpecOps.               *)
(***************************************************************************)
\* A new call arrives in slot r and passes its checks.
Accepted(r, op) ==
    /\ req'[r].opNo # req[r].opNo
    /\ req'[r].op = op
    /\ req'[r].pc # "done"

\* The call in slot r hands its event to Publish.
Publishes(r) == req[r].pc = "publish" /\ req'[r].pc = "publishing"

\* C28: a write publishes file.created when its target did not exist before
\* the call and file.updated otherwise; a delete publishes dir.deleted when
\* its target was a directory and file.deleted otherwise; a move publishes
\* file.moved with the destination as path and the source as prevPath; every
\* event carries the path of the request as it was given.
TheoremC28 ==
    /\ [][\A r \in ReqSlots :
             /\ Accepted(r, "write") =>
                   req'[r].overwritten = (disk[req'[r].abs].kind # "none")
             /\ Accepted(r, "delete") =>
                   req'[r].isDir = (disk[req'[r].abs].kind = "dir")
             /\ (req[r].pc \notin {"idle", "done"} /\ req'[r].opNo = req[r].opNo) =>
                   /\ req'[r].op = req[r].op
                   /\ req'[r].path = req[r].path /\ req'[r].dst = req[r].dst
                   /\ req'[r].overwritten = req[r].overwritten
                   /\ req'[r].isDir = req[r].isDir
             /\ Publishes(r) =>
                   LET e == pubs'[r].evt
                   IN  /\ req[r].op = "write" =>
                             /\ e.type = IF req[r].overwritten THEN "file.updated"
                                         ELSE "file.created"
                             /\ e.path = req[r].path /\ e.prevPath = NoPrevPath
                       /\ req[r].op = "delete" =>
                             /\ e.type = IF req[r].isDir THEN "dir.deleted"
                                         ELSE "file.deleted"
                             /\ e.path = req[r].path /\ e.prevPath = NoPrevPath
                       /\ req[r].op = "move" =>
                             /\ e.type = "file.moved"
                             /\ e.path = req[r].dst /\ e.prevPath = req[r].path]_vars
    /\ [](\A i \in 1..Len(published["w"]) :
             published["w"][i].type = "file.moved" <=> published["w"][i].prevPath # NoPrevPath)

\* A file was created by a write and then moved: both events are published.
WitnessC28 ==
    /\ Len(published["w"]) = 2
    /\ published["w"][1].type = "file.created"
    /\ published["w"][2].type = "file.moved"
    /\ published["w"][2].prevPath = published["w"][1].path
    /\ published["w"][2].path # published["w"][1].path

(***************************************************************************)
(* The isDir flag of the events, checked under SpecWatch.                  *)
(***************************************************************************)
\* C29: every event of a workspace's stream, from an operation or from the
\* watcher, has isDir set when its type is dir.created or dir.deleted and
\* clear when its type is file.created, file.updated or file.deleted.
CounterC29 ==
    \A w \in HubWS : \A i \in 1..Len(published[w]) :
       LET e == published[w][i]
       IN  /\ e.type \in {"dir.created", "dir.deleted"} => e.isDir
           /\ e.type \in {"file.created", "file.updated", "file.deleted"} => ~e.isDir

(***************************************************************************)
(* The failed commit, checked under SpecFault.                             *)
(***************************************************************************)
\* The commit step of the call in slot r fails.
CommitFails(r) == req[r].pc = "commit" /\ req'[r].pc = "done"

\* The commit step of the call in slot r makes a commit.
Commits(r) == req[r].pc = "commit" /\ req'[r].pc = "publish"

\* C30: when the commit of a write, edit, move, delete or create-directory
\* fails after the bytes were changed, the call returns INTERNAL, publishes
\* no event and leaves HEAD and the working tree as they are; the next
\* successful commit takes the whole working tree, these bytes included; and
\* a call hands an event to Publish only after the commit it names was made
\* by that call.
TheoremC30 ==
    /\ [][\A r \in ReqSlots :
             /\ CommitFails(r) =>
                   /\ req'[r].resp.err = "INTERNAL"
                   /\ head' = head /\ commits' = commits
                   /\ disk' = disk
                   /\ pubs' = pubs /\ published' = published
             /\ Commits(r) =>
                   /\ Len(commits') = Len(commits) + 1
                   /\ head' = Len(commits')
                   /\ commits'[head'].tree = Tree(disk)
                   /\ disk' = disk
             /\ Publishes(r) =>
                   /\ req[r].commit \in 1..Len(commits)
                   /\ commits[req[r].commit].opNo = req[r].opNo
                   /\ pubs'[r].evt.commit = req[r].commit
             /\ pubs'[r] # pubs[r] /\ pubs[r].pc = "idle" => Publishes(r)]_vars
    /\ [](\A r \in ReqSlots :
             (req[r].pc = "done" /\ req[r].resp.err # "") => pubs[r].pc = "idle")
    /\ [](\A i \in 1..Len(published["w"]) :
             /\ published["w"][i].commit \in 3..Len(commits)
             /\ commits[published["w"][i].commit].opNo >= 1)

\* The first call wrote z to the file a and its commit failed; the second
\* call, on another path, made the next commit, which holds a with z.
WitnessC30 ==
    /\ Len(commits) = 3
    /\ commits[3].opNo = 2
    /\ commits[3].tree[workspaceW \o <<SegA>>] = File(ContentZ)
    /\ commits[2].tree[workspaceW \o <<SegA>>] = File(ContentX)
    /\ req["r1"].opNo = 2
    /\ req["r1"].op \in {"write", "mkdir", "delete"}
    /\ req["r1"].abs # workspaceW \o <<SegA>>
    /\ Len(published["w"]) = 1

(***************************************************************************)
(* The workspace ID given to SafePath, checked under SpecPath.             *)
(***************************************************************************)
\* C31: whatever workspace ID and relative path SafePath is given, a path it
\* returns without error lies inside the manager's root, at or below a
\* directory directly under the root.
CounterC31 ==
    (pOut.kind \in {"safepath", "op"} /\ pOut.ok) =>
        /\ InsideBySegments(pOut.path, rootPath)
        /\ Len(pOut.path) > Len(rootPath)

(***************************************************************************)
(* The paths of the watcher's events, checked under SpecNames.             *)
(***************************************************************************)
\* The path that the key k stands for.
NameOf(k) == rootPath \o <<k.wsID>> \o k.path

\* C32: the watcher publishes no event whose last path segment is .git or
\* .gitkeep, and none for the root, for a workspace directory or for a path
\* outside every workspace; the workspace of an event it publishes is the
\* first segment of the changed path below the root and the event's path is
\* the rest of it.
TheoremC32 ==
    /\ [](\A w \in HubWS : \A i \in 1..Len(published[w]) :
             LET e == published[w][i]
             IN  /\ e.path # EmptyStr
                 /\ e.path[Len(e.path)] \notin {SegGit, SegKeep}
                 /\ \E k \in WatchKeys :
                       /\ HubName(k.wsID) = w /\ k.path = e.path /\ k.typ = e.type
                       /\ stamps[k] # <<>>)
    /\ [][\A k \in WatchKeys :
             stamps'[k] # stamps[k] =>
                /\ wEvents # <<>>
                /\ Head(wEvents).name = NameOf(k)
                /\ Len(NameOf(k)) >= Len(rootPath) + 2]_vars
    /\ [][\A k \in WatchKeys :
             (pubs'[WatchTask] # pubs[WatchTask] /\ pubs[WatchTask].pc = "idle"
                 /\ k \in sweep.toSend /\ k \notin sweep'.toSend) =>
                /\ pubs'[WatchTask].ws = HubName(k.wsID)
                /\ pubs'[WatchTask].evt.path = k.path
                /\ pubs'[WatchTask].evt.type = k.typ]_vars

\* The root, the workspace directory and .gitkeep were notified and
\* consumed, the sweeper took the one key and published nothing.
WitnessC32 ==
    /\ nRaw = MaxRaw
    /\ wEvents = <<>>
    /\ \E k \in WatchKeys : k.path = <<SegKeep>> /\ takes[k] # <<>>
    /\ \A k \in WatchKeys : debounced[k] = NoTime
    /\ sweep.pc = "wait"
    /\ \A w \in HubWS : published[w] = <<>>

\* C33: no event the watcher publishes has .git or .gitkeep in any segment
\* of its path: a change inside a workspace's .git directory never appears
\* on the workspace's stream.
CounterC33 ==
    \A w \in HubWS : \A i \in 1..Len(published[w]) :
       \A j \in 1..Len(published[w][i].path) :
          published[w][i].path[j] \notin {SegGit, SegKeep}

(***************************************************************************)
(* The move onto an existing destination, checked under SpecOps.           *)
(***************************************************************************)
\* A move call arrives in slot r.
MoveArrives(r) == req'[r].opNo # req[r].opNo /\ req'[r].op = "move"

\* The move call in slot r ends at once with the error kind, and the disk,
\* the head, the commits and the hub stay as they are.
MoveRejected(r, kind) ==
    /\ req'[r].pc = "done"
    /\ req'[r].resp.err = kind
    /\ NothingChanged

\* The entry that the destination of the call names exists.
DestinationExists(dst) ==
    LET abs == Join(workspaceW, dst)
    IN  abs \in Universe /\ disk[abs].kind # "none"

CounterC35 ==
    /\ [][\A r \in ReqSlots :
             (req'[r].op = "edit" /\ req'[r].dryRun /\ req'[r] # req[r]) =>
                 /\ NothingChanged
                 /\ req'[r].pc \in {"head", "done"}]_vars
    /\ [](\A r \in ReqSlots :
             ( /\ req[r].op = "edit" /\ req[r].dryRun
               /\ req[r].pc = "done" /\ req[r].resp.err = "" ) =>
                 req[r].resp.dryRun)

(***************************************************************************)
(* The form of the IDs given by Create, checked under SpecCreate.          *)
(***************************************************************************)
\* A string over [a-z0-9-] of at most 64 characters with no hyphen at its
\* start or end and no two hyphens in a row.
IsSlug(id) ==
    /\ \A i \in 1..Len(id) : id[i] \in SlugChars
    /\ Len(id) <= 64
    /\ id # <<>> => id[1] # "-" /\ id[Len(id)] # "-"
    /\ \A i \in 1..(Len(id) - 1) : ~(id[i] = "-" /\ id[i + 1] = "-")

\* C36: every ID that Create returns is such a string: also the ID made
\* distinct after a collision, the ID of a name of 64 valid characters or
\* more, and the ID of a name with no valid character.
CounterC36 ==
    \A i \in 1..Len(calls) : CallSucceeded(i) => IsSlug(calls[i].id)

(***************************************************************************)
(* The workspaces of the hub are apart, checked under SpecSubs.            *)
(***************************************************************************)
\* Workspace b is as it was: its sequence counter, its ring, its
\* subscribers, and the channels of the subscriptions made to it.
Untouched(b) ==
    /\ hws'[b] = hws[b]
    /\ \A t \in SubTasks : (subT[t].pc # "idle" /\ subT[t].ws = b) => chans'[t] = chans[t]

\* C37: a step of a Publish call, of a Subscribe call, of its replay or of
\* an unsubscribe call for workspace a leaves every other workspace as it
\* was: sequence counter, ring, subscriber set, and the queues of its
\* subscribers.
TheoremC37 ==
    [][/\ \A p \in PubTasks :
             pubs'[p] # pubs[p] =>
                LET a == IF pubs[p].pc = "idle" THEN pubs'[p].ws ELSE pubs[p].ws
                IN  \A b \in HubWS \ {a} : Untouched(b)
       /\ \A s \in SubTasks :
             subT'[s] # subT[s] =>
                LET a == IF subT[s].pc = "idle" THEN subT'[s].ws ELSE subT[s].ws
                IN  \A b \in HubWS \ {a} : Untouched(b)]_vars

\* An event was published to w and is in the queue of its subscriber, who
\* then unsubscribed; the subscriber of v is registered with an empty queue,
\* and v has an empty ring.
WitnessC37 ==
    /\ subT["s1"].pc = "subscribed" /\ subT["s1"].ws = "w"
    /\ subT["s2"].pc = "subscribed" /\ subT["s2"].ws = "v"
    /\ Len(published["w"]) >= 1
    /\ Len(chans["s1"].q) = 1
    /\ chans["s1"].closed
    /\ hws["v"].exists /\ hws["v"].seq = 0 /\ hws["v"].ring = <<>>
    /\ hws["v"].subs = {[id |-> 1, ch |-> "s2"]}
    /\ chans["s2"].q = <<>> /\ ~chans["s2"].closed
    /\ ~closed /\ ~panicked

(***************************************************************************)
(* SpecPre: one client writes, edits and deletes the file a, one call      *)
(* after the other, with every combination of the two preconditions.       *)
(***************************************************************************)
\* No precondition, the etag of the first or of the second content, and the
\* head before and after the first commit of the client.
PreBoth ==
    [etag : {NoEtag, Etag(ContentX), Etag(ContentZ)}, head : {0, 2, 3}]

NextPre ==
    \/ \E content \in Contents, pre \in PreBoth :
          StartWrite("r1", ReqPath, content, pre.etag, pre.head)
    \/ \E pre \in PreBoth :
          StartEdit("r1", ReqPath, TheEdit, pre.etag, pre.head, FALSE)
    \/ StartDelete("r1", ReqPath)
    \/ CheckHead("r1")
    \/ WriteBytes("r1")
    \/ \E fails \in BOOLEAN : CommitStep("r1", fails)
    \/ ReqPublish("r1")
    \/ HubPubLock("r1")
    \/ HubPubSend1("r1", "s1")
    \/ HubPubDrain("r1")
    \/ HubPubSend2("r1")
    \/ HubRecv("s1")

SpecPre == Init /\ [][NextPre]_vars

\* A call of the operation op arrives in slot r.
Called(r, op) == req'[r].opNo # req[r].opNo /\ req'[r].op = op

\* Nothing is at the path that the call in slot r names, as it arrives.
AbsentTarget(r) == disk[Join(workspaceW, req'[r].path)].kind = "none"

\* The write call in slot r came with an etag for a file that was not there.
EtagForNothing(r) ==
    /\ req[r].op = "write"
    /\ req[r].ifEtag # NoEtag
    /\ ~req[r].overwritten

\* C38: a write with a non-empty ifMatchFileEtag for a path at which nothing
\* exists is not refused with CONFLICT for it: it goes on to the head check,
\* and with no ifMatchWorkspaceHead or the current one it writes the file,
\* and after its commit publishes file.created.  An edit of a path at which
\* no file exists fails with NOT_FOUND whatever its preconditions, and
\* changes nothing.
TheoremC38 ==
    [][\A r \in ReqSlots :
         /\ (Called(r, "write") /\ req'[r].ifEtag # NoEtag /\ AbsentTarget(r)) =>
               /\ req'[r].pc = "head"
               /\ ~req'[r].overwritten
         /\ (EtagForNothing(r) /\ req[r].pc = "head" /\ req'[r] # req[r]) =>
               IF req[r].ifHead \in {0, head}
                  THEN req'[r].pc = "write"
                  ELSE req'[r].pc = "done" /\ req'[r].resp.err = "CONFLICT"
         /\ (EtagForNothing(r) /\ req[r].pc = "write" /\ req'[r] # req[r]) =>
               /\ req'[r].pc = "commit"
               /\ disk'[req[r].abs] = File(req[r].content)
         /\ (EtagForNothing(r) /\ Commits(r)) =>
               /\ Len(commits') = Len(commits) + 1
               /\ head' = Len(commits')
               /\ req'[r].commit = head'
               /\ commits'[head'].tree[req[r].abs] = File(req[r].content)
         /\ (EtagForNothing(r) /\ Publishes(r)) =>
               /\ pubs'[r].evt.type = "file.created"
               /\ pubs'[r].evt.path = req[r].path
               /\ req'[r].resp.err = ""
         /\ (EtagForNothing(r) /\ req'[r].opNo = req[r].opNo
                               /\ req'[r].pc = "done" /\ req[r].pc # "done") =>
               /\ req'[r].resp.err \in {"CONFLICT", "INTERNAL"}
               /\ req'[r].resp.err = "CONFLICT" => req[r].pc = "head" /\ req[r].ifHead # head
         /\ (Called(r, "edit") /\ disk[Join(workspaceW, req'[r].path)].kind # "file") =>
               /\ req'[r].pc = "done"
               /\ req'[r].resp.err = "NOT_FOUND"
               /\ NothingChanged]_vars

\* The file a was deleted; a write of a with the etag of its old content
\* was served, made a commit and published file.created.
WitnessC38 ==
    \E r \in ReqSlots :
       /\ EtagForNothing(r)
       /\ req[r].ifEtag = Etag(ContentX)
       /\ Returned(r) /\ req[r].resp.err = ""
       /\ req[r].resp.commit = Len(commits)
       /\ disk[workspaceW \o <<SegA>>] = File(req[r].content)
       /\ Len(published["w"]) >= 2
       /\ published["w"][Len(published["w"])].type = "file.created"
       /\ published["w"][Len(published["w"])].commit = req[r].resp.commit

(***************************************************************************)
(* Deleting what is not there, checked under SpecOps.                      *)
(***************************************************************************)
\* The delete call in slot r found nothing at its path: RemoveAll removed
\* neither a directory nor an entry that the workspace shows.
DeletesNothing(r) ==
    /\ req[r].op = "delete"
    /\ req[r].pc \in {"commit", "publish"}
    /\ ~req[r].isDir
    /\ ~req[r].changed

====
